---------------------------- MODULE Spec2Model ----------------------------
(***************************************************************************)
(* Model of the Onshape export workflow (src/onshape/workflow.py and       *)
(* src/onshape/client.py).                                                 *)
(*                                                                         *)
(* One run of run_export_workflow is a state machine: pc is the position   *)
(* in the code, every remote request is one step, and the remote document  *)
(* (its element listing, the parts and features of each of its Part        *)
(* Studios) is part of the state.  A remote request either                 *)
(* succeeds or raises; what a status fetch or a reference lookup answers   *)
(* is chosen by the environment from small sets, and the number of         *)
(* requests of one run that go wrong is bounded.  Spec is the whole run,   *)
(* SpecStudio one call of export_part_studio taken alone.                  *)
(*                                                                         *)
(* Strings are sequences of tokens: <<"TEMP_", "plateA", "_ts">> is the    *)
(* name "TEMP_plateA_<timestamp>", <<"plateA", ".dxf">> is "plateA.dxf".   *)
(* An Optional value is a sequence of length 0 (None) or 1 (the value).    *)
(***************************************************************************)
EXTENDS Integers, Sequences, FiniteSets, TLC

(***************************************************************************)
(* Bounds of the model.                                                    *)
(***************************************************************************)
\* Part Studios in the document at most.
MaxStudios == 1
\* Drawings in the document at most.
MaxDrawings == 2
\* Fetches that fit into the timeout of poll_translation (timeout / interval).
TranslationPolls == 2
\* Requests of one run that go wrong at most.
MaxFaults == 1
\* Requests of one export_part_studio call, taken alone, that go wrong at most.
MaxStudioFaults == 3

MaxCleanFaults == 2

MaxResults == 3

MaxPackageFaults == 2

MaxParts == 3

MaxFeatures == 3
\* Fetches that fit into the timeout of wait_for_microversion_change.
RenderPolls == 2

\* Optional[T]: None, or Some(x).
None == <<>>

Some(x) == <<x>>

TheValue(o) == o[1]

(***************************************************************************)
(* poll_until (client.py 59-76).  The clock counts seconds and advances by *)
(* the interval at every sleep; a fetch takes no time.                     *)
(***************************************************************************)
PollInterval == 2

\* A loop that polls once more when the timeout is reached.
PollRunningAtTimeout(elapsed, timeout) == elapsed <= timeout

\* while time.time() - start < timeout
PollRunning(elapsed, timeout) == elapsed < timeout

\* A poll_until that a fetch without a result ends.
PollMatchEndsOnNone(result, answer) ==
    IF result # None THEN answer ELSE Some("__ERROR__")

\* One iteration: the predicate is asked only about a fetch that is not
\* None; answer is what the predicate says about result.
PollMatch(result, answer) == IF result # None THEN answer ELSE None

(***************************************************************************)
(* DocContext (client.py 34-54).                                           *)
(***************************************************************************)
make_workspace_context(did, wid) == [did |-> did, wvm_type |-> "w", wvm_id |-> wid]

make_version_context(did, vid) == [did |-> did, wvm_type |-> "v", wvm_id |-> vid]

\* A microversion reference has no constructor in client.py; its wvm_type is 'm'.
MicroversionContext(did, mid) == [did |-> did, wvm_type |-> "m", wvm_id |-> mid]

\* A check that takes every reference for a workspace.
is_mutable_any(c) == TRUE

is_mutable(c) == c.wvm_type = "w"

(***************************************************************************)
(* Names (token sequences).                                                *)
(***************************************************************************)
TEMP_ELEMENT_PREFIXES == {"TEMP_", "DEBUG_VIEW_", "TEST_MV_"}

\* A test that takes no name for a temporary one.
StartsWithNoPrefix(name) == FALSE

\* str.startswith(TEMP_ELEMENT_PREFIXES)
StartsWithTempPrefix(name) == Len(name) > 0 /\ name[1] \in TEMP_ELEMENT_PREFIXES

\* str.lower() on the tokens that have an upper-case form in the model.
LowerToken(t) ==
    CASE t = ".DXF" -> ".dxf"
      [] t = ".PDF" -> ".pdf"
      [] OTHER -> t

\* name.lower().endswith(ext) for ext one of '.dxf', '.pdf'
EndsWithLower(name, ext) == Len(name) > 0 /\ LowerToken(name[Len(name)]) = ext

(***************************************************************************)
(* Sequence helpers.                                                       *)
(***************************************************************************)
Range(s) == {s[i] : i \in 1..Len(s)}

IsPrefix(s, t) == Len(s) <= Len(t) /\ SubSeq(t, 1, Len(s)) = s

(***************************************************************************)
(* Discovery helpers (client.py 148-165, workflow.py 170-189).             *)
(***************************************************************************)
\* A part is [partId, name, isFlattenedBody, unflattenedPartId]; an absent
\* unflattenedPartId is "".  First a categorization that keeps the solid a
\* flat pattern was unfolded from among the regular parts.
categorize_keeps_originals(parts) ==
    LET IsFlat(p) == p.isFlattenedBody
        NotFlat(p) == ~p.isFlattenedBody
    IN  [flat_patterns |-> SelectSeq(parts, IsFlat),
         regular_parts |-> SelectSeq(parts, NotFlat)]

categorize_parts(parts) ==
    LET IsFlat(p) == p.isFlattenedBody
        NotFlat(p) == ~p.isFlattenedBody
        flat_patterns == SelectSeq(parts, IsFlat)
        flat_part_originals ==
            {parts[i].unflattenedPartId :
                i \in {j \in 1..Len(parts) :
                          parts[j].isFlattenedBody /\ parts[j].unflattenedPartId # ""}}
        Kept(p) == p.partId \notin flat_part_originals
    IN  [flat_patterns |-> flat_patterns,
         regular_parts |-> SelectSeq(SelectSeq(parts, NotFlat), Kept)]

\* int() of a run of decimal digits, for the number tokens of the model.
IntOfDigits(t) ==
    CASE t = "0" -> 0
      [] t = "1" -> 1
      [] t = "2" -> 2
      [] t = "3" -> 3
      [] OTHER -> -1

\* What the pattern is matched against: $ matches at the end of the name
\* and also before a newline that ends it.
BeforeFinalNewline(name) ==
    IF Len(name) > 0 /\ name[Len(name)] = "\n"
    THEN SubSeq(name, 1, Len(name) - 1) ELSE name

\* re.compile(r"^Orient Plates for Export(?: (\d+))?$").match(name)
OrientMatch(name) ==
    LET matched == BeforeFinalNewline(name)
    IN  /\ Len(matched) \in {1, 3}
        /\ matched[1] = "Orient Plates for Export"
        /\ Len(matched) = 3 => (matched[2] = " " /\ IntOfDigits(matched[3]) >= 0)

\* int(match.group(1)) if match.group(1) else 0
OrientIndex(name) ==
    LET matched == BeforeFinalNewline(name)
    IN  IF Len(matched) = 3 THEN IntOfDigits(matched[3]) ELSE 0

\* A feature is [featureId, name, suppressed].  The candidates are sorted by
\* index, descending, with a stable sort: the first of the highest index wins.
find_orient_feature(features) ==
    LET candidates == {i \in 1..Len(features) : OrientMatch(features[i].name)}
        top == {i \in candidates :
                  \A j \in candidates :
                      \/ OrientIndex(features[j].name) < OrientIndex(features[i].name)
                      \/ /\ OrientIndex(features[j].name) = OrientIndex(features[i].name)
                         /\ i <= j}
    IN  IF candidates = {} THEN None ELSE Some(features[CHOOSE i \in top : TRUE])

(***************************************************************************)
(* Filename assembly (client.py 199-353).  A thickness is a number of      *)
(* hundredths of a millimetre.                                             *)
(***************************************************************************)
\* The largest thickness the rounding table below covers: 10.05 mm.
MaxThickness == 1005

\* The thicknesses h/100 mm with h % 10 = 5 whose nearest double lies above
\* h/100, or is h/100 with an odd tenth below it: f"{x:.1f}" rounds these up
\* and the other values of that kind down.
TiesRoundedUp ==
    {5, 45, 55, 65, 75, 105, 135, 155, 175, 185, 235, 245, 275, 285, 295,
     335, 345, 375, 385, 395, 415, 445, 465, 475, 495, 515, 545, 565, 575,
     595, 615, 645, 665, 675, 695, 715, 745, 765, 775, 795, 805, 815, 855,
     865, 875, 905, 915, 955, 965, 975, 1005}

\* f"{x:.1f}" in tenths, for x the double nearest to h/100
RoundedTenths(h) ==
    IF h % 10 > 5 \/ (h % 10 = 5 /\ h \in TiesRoundedUp)
    THEN h \div 10 + 1 ELSE h \div 10

\* s.rstrip(ch) on tokens
RECURSIVE RStrip(_, _)
RStrip(s, ch) ==
    IF Len(s) > 0 /\ s[Len(s)] = ch THEN RStrip(SubSeq(s, 1, Len(s) - 1), ch) ELSE s

\* A prefix that cuts the hundredths off.
format_thickness_prefix_truncating(thickness_mm) ==
    IF thickness_mm = None \/ TheValue(thickness_mm) <= 0 THEN <<>>
    ELSE LET tenths == TheValue(thickness_mm) \div 10
             fixed == <<ToString(tenths \div 10), ".", ToString(tenths % 10)>>
         IN  RStrip(RStrip(fixed, "0"), ".") \o <<"mm">>

\* f"{thickness_mm:.1f}".rstrip('0').rstrip('.') + "mm"; "" for None or <= 0.
format_thickness_prefix(thickness_mm) ==
    IF thickness_mm = None \/ TheValue(thickness_mm) <= 0 THEN <<>>
    ELSE LET tenths == RoundedTenths(TheValue(thickness_mm))
             fixed == <<ToString(tenths \div 10), ".", ToString(tenths % 10)>>
         IN  RStrip(RStrip(fixed, "0"), ".") \o <<"mm">>

\* props is [part_number, revision, material], each a name, <<>> when absent.
build_export_filename(fallback_name, props, extension, thickness_mm, include_material) ==
    LET part_number == props.part_number
        revision == props.revision
        material == IF include_material THEN props.material ELSE <<>>
        thickness_str ==
            IF thickness_mm # None /\ TheValue(thickness_mm) # 0
            THEN format_thickness_prefix(thickness_mm) ELSE <<>>
        core == part_number \o <<"_Rev ">> \o revision
        prefix ==
            IF thickness_str # <<>> /\ material # <<>>
            THEN thickness_str \o <<" ">> \o material
            ELSE thickness_str \o material
    IN  IF part_number # <<>> /\ revision # <<>>
        THEN IF prefix # <<>>
             THEN prefix \o <<"_">> \o core \o <<extension>>
             ELSE core \o <<extension>>
        ELSE IF thickness_str # <<>>
             THEN thickness_str \o fallback_name \o <<extension>>
             ELSE IF EndsWithLower(fallback_name, extension)
                  THEN fallback_name
                  ELSE fallback_name \o <<extension>>

\* A DXF name that leaves the material out.
build_dxf_filename_no_material(part_name, thickness_mm, props) ==
    build_export_filename(part_name, props, ".dxf", thickness_mm, FALSE)

build_dxf_filename(part_name, thickness_mm, props) ==
    build_export_filename(part_name, props, ".dxf", thickness_mm, TRUE)

\* A PDF name that ends like the name of a DXF.
build_pdf_filename_as_dxf(name, props) ==
    build_export_filename(name, props, ".dxf", None, FALSE)

build_pdf_filename(name, props) ==
    build_export_filename(name, props, ".pdf", None, FALSE)

NoProps == [part_number |-> <<>>, revision |-> <<>>, material |-> <<>>]

(***************************************************************************)
(* The state.                                                              *)
(***************************************************************************)
VARIABLES
    args,   \* the arguments of run_export_workflow: ctx, clean_before, clean_after
    doc,    \* remote: the element listing of the document, in listing order
    srv,    \* remote: the parts and features of each Part Studio
    env,    \* remote: what the requests of this run will meet
    pc,     \* position in the code
    state,  \* the WorkflowState the pipeline threads through the steps
    loc,    \* locals of the running step function (and of the cleanup helpers)
    ps,     \* locals of export_part_studio
    px,     \* locals of export_part_as_dxf and export_drawing_as_pdf
    tr,     \* locals of execute_translation and of the poll loops
    pkg,    \* locals of package_results
    out,    \* the output directory: archive, critical_error.log, return value
    hist    \* history of the run: what was requested, what failed

vars == <<args, doc, srv, env, pc, state, loc, ps, px, tr, pkg, out, hist>>

(***************************************************************************)
(* The remote document.  An element is                                     *)
(* [id, name, elementType, dataType, microversionId]; ids are opaque       *)
(* triples.                                                                *)
(***************************************************************************)
Element(id, name, elementType, dataType) ==
    [id |-> id, name |-> name, elementType |-> elementType,
     dataType |-> dataType, microversionId |-> "mv1"]

StudioElement(i) == Element(<<"ps", i, "">>, <<"Studio", ToString(i)>>, "PARTSTUDIO", "")

\* Onshape lists a drawing as an APPLICATION element of a drawing data type;
\* the second drawing of the model is listed with elementType DRAWING.
DrawingElement(i) ==
    IF i = 1 THEN Element(<<"dr", i, "">>, <<"Drawing", ToString(i)>>,
                          "APPLICATION", "onshape-app/drawing")
    ELSE Element(<<"dr", i, "">>, <<"Drawing", ToString(i)>>, "DRAWING", "")

\* A temporary drawing an interrupted earlier run left behind.
LeftoverElement ==
    Element(<<"old", 0, "">>, <<"TEMP_", "plateA", "_ts">>,
            "APPLICATION", "onshape-app/drawing")

\* A DXF a former run stored in the document.
OldBlobElement == Element(<<"blob", 0, "">>, <<"old", ".DXF">>, "BLOB", "")

InitialDoc(nPS, nDR, leftover, oldBlob) ==
    [i \in 1..nPS |-> StudioElement(i)]
    \o [i \in 1..nDR |-> DrawingElement(i)]
    \o (IF leftover THEN <<LeftoverElement>> ELSE <<>>)
    \o (IF oldBlob THEN <<OldBlobElement>> ELSE <<>>)

\* GET /documents/.../elements (client.py 125-128)
list_elements == doc

\* The listing without element eid (the effect of a DELETE that succeeded).
DocWithout(eid) == LET Other(e) == e.id # eid IN SelectSeq(doc, Other)

\* 'drawing' in dataType.lower()
ContainsDrawing(dataType) == dataType = "onshape-app/drawing"

(***************************************************************************)
(* Requests.  A request answers or raises.  A request that changes the     *)
(* document is refused (raises) under a version or microversion reference. *)
(***************************************************************************)
\* env.faults is the number of requests that may still go wrong in this
\* run: raise, or answer what no healthy request answers.
MayFail == IF env.faults > 0 THEN BOOLEAN ELSE {TRUE}

ReadOutcomes == MayFail

\* Whether an answer holds what a healthy answer holds.
AnswerOutcomes == MayFail

WriteOutcomes == IF is_mutable(args.ctx) THEN MayFail ELSE {FALSE}

\* The environment after a request; fault says that it went wrong.  A
\* refused change of an immutable document is no fault of the remote side.
Charged(fault) == env' = [env EXCEPT !.faults = IF fault THEN @ - 1 ELSE @]

ChargedWrite(ok) == Charged(~ok /\ is_mutable(args.ctx))

\* hist with a mutating request of the given kind recorded.
Mutating(h, kind) == [h EXCEPT !.mutating = @ \cup {kind}]

(***************************************************************************)
(* log_step (workflow.py 49-53): a new state, one entry longer.            *)
(***************************************************************************)
LogEntry(msg, arg) == [msg |-> msg, arg |-> arg]

\* A log_step that starts the list of entries anew.
log_step_anew(st, msg, arg) ==
    [st EXCEPT !.log_entries = <<LogEntry(msg, arg)>>]

log_step(st, msg, arg) ==
    [st EXCEPT !.log_entries = Append(st.log_entries, LogEntry(msg, arg))]

(***************************************************************************)
(* Initial values of the locals.                                           *)
(***************************************************************************)
\* elements is the listing find_blobs_by_extension got; listed, requested
\* and attempted are history: the listings cleanup_exports asked for, the ids
\* of the elements delete_elements asked the remote side to delete, and the
\* ids of the drawings export_drawing_as_pdf was called for.
NoLoc == [state |-> None, results |-> <<>>, todo |-> <<>>, deleted |-> 0,
          i |-> 0, caller |-> "", elements |-> <<>>, listed |-> 0,
          requested |-> <<>>, attempted |-> <<>>]

\* guard and attempted are history: whether the orientation feature is
\* unsuppressed by the run ("open") and re-suppression was requested
\* ("closed"), and the partIds export_part_as_dxf was called for.
NoPs == [eid |-> None, flat_patterns |-> <<>>, regular_parts |-> <<>>,
         oriented_parts |-> <<>>, orient_feature |-> None, phase |-> 0,
         i |-> 0, results |-> <<>>, exc |-> None,
         guard |-> "none", attempted |-> <<>>]

\* failed, delete_issued and issued are history: what went wrong in this
\* export, whether the DELETE of the temporary drawing was requested, and
\* the requests for a temporary drawing and for a translation this export
\* has issued, in their order.
NoPx == [part |-> None, eid |-> None, name |-> <<>>, temp_drawing_id |-> None, old_mv |-> None,
         thickness |-> None, props |-> NoProps, filename |-> <<>>,
         ret |-> None, exc |-> None, failed |-> {}, delete_issued |-> FALSE,
         issued |-> <<>>]

\* fetched is history: what the last fetch of the running poll loop found.
NoTr == [caller |-> "", eid |-> None, destination_name |-> <<>>,
         extension |-> "", elapsed |-> 0, result_id |-> None, fetched |-> ""]

NoPkg == [i |-> 0, zip_path |-> None, seen_filenames |-> <<>>,
          collision_warnings |-> <<>>]

Contexts ==
    {make_workspace_context("d1", "w1"), make_version_context("d1", "v1"),
     MicroversionContext("d1", "m1")}

\* The initial_state of run_export_workflow (workflow.py 526-536).
initial_state(c) ==
    [ctx |-> c, output_dir |-> "out", results |-> <<>>, log_entries |-> <<>>,
     part_studios |-> <<>>, drawings |-> <<>>, zip_path |-> None,
     collision_warnings |-> <<>>]

\* mutating: the kinds of requests that change the document issued so far;
\* item_failed: the items (named by the id their blob would get) whose
\* export ended in a failure; delete_failed: the items whose temporary
\* drawing could not be deleted; timed_out: the items during whose export a
\* poll loop reached its timeout.
NoHist == [mutating |-> {}, item_failed |-> {}, delete_failed |-> {},
           timed_out |-> {}]

(***************************************************************************)
(* The except clause of run_export_workflow (workflow.py 567-572): the     *)
(* exception e of a step reaches it, critical_error.log is written and     *)
(* None is returned.  raised_in is history: where the exception came from. *)
(***************************************************************************)
\* An except clause that logs the exception and lets the run go on with the
\* Drawings.
AbortLogged(e) ==
    /\ pc' = "step_export_pdfs"
    /\ out' = out

Abort(e) ==
    /\ pc' = "failed"
    /\ out' = [out EXCEPT !.critical_error = Some(e), !.raised_in = pc,
                          !.returned = None]

(***************************************************************************)
(* The pipeline of run_export_workflow (workflow.py 31-33, 538-551): the   *)
(* steps are applied in the order they are listed in; "done" is the return *)
(* of the composed function.                                               *)
(***************************************************************************)
Steps ==
    <<"step_init", "step_pre_clean", "step_cleanup_temp", "step_discover",
      "step_export_dxfs", "step_export_pdfs", "step_package", "step_post_clean">>

\* The step after a step in the list of steps.
StepAfter(steps, step) ==
    LET i == CHOOSE k \in 1..Len(steps) : steps[k] = step
    IN  IF i < Len(steps) THEN steps[i + 1] ELSE "done"

\* A pipeline that exports the Drawings before the Part Studios.
pipeline_pdfs_first(step) ==
    StepAfter(<<"step_init", "step_pre_clean", "step_cleanup_temp", "step_discover",
                "step_export_pdfs", "step_export_dxfs", "step_package",
                "step_post_clean">>, step)

\* A pipeline without the package stage.
pipeline_without_package(step) ==
    StepAfter(<<"step_init", "step_pre_clean", "step_cleanup_temp", "step_discover",
                "step_export_dxfs", "step_export_pdfs", "step_post_clean">>, step)

pipeline_next(step) == StepAfter(Steps, step)

(***************************************************************************)
(* step_init (workflow.py 461-463).                                        *)
(***************************************************************************)
step_init ==
    /\ pc = "step_init"
    /\ state' = log_step(state, "Starting export workflow", <<>>)
    /\ pc' = pipeline_next("step_init")
    /\ UNCHANGED <<args, env, doc, srv, loc, ps, px, tr, pkg, out, hist>>

(***************************************************************************)
(* step_pre_clean and step_post_clean (workflow.py 465-471, 517-523) call  *)
(* cleanup_exports when the flag is set and the context is mutable.        *)
(***************************************************************************)
\* The condition of lines 467 and 519.
clean_always(flag, ctx) == is_mutable(ctx)

clean_requested(flag, ctx) == flag /\ is_mutable(ctx)

step_pre_clean ==
    /\ pc = "step_pre_clean"
    /\ IF clean_requested(args.clean_before, state.ctx)
       THEN /\ pc' = "cleanup_exports"
            /\ loc' = [NoLoc EXCEPT !.caller = "pre"]
       ELSE /\ pc' = pipeline_next("step_pre_clean")
            /\ loc' = NoLoc
    /\ UNCHANGED <<args, env, doc, srv, state, ps, px, tr, pkg, out, hist>>

step_post_clean ==
    /\ pc = "step_post_clean"
    /\ IF clean_requested(args.clean_after, state.ctx)
       THEN /\ pc' = "cleanup_exports"
            /\ loc' = [NoLoc EXCEPT !.caller = "post"]
            /\ out' = out
       ELSE /\ pc' = pipeline_next("step_post_clean")
            /\ loc' = NoLoc
            /\ out' = [out EXCEPT !.returned = state.zip_path]
    /\ UNCHANGED <<args, env, doc, srv, state, ps, px, tr, pkg, hist>>

\* What follows cleanup_exports in its caller: a step logs when something was
\* deleted and hands over to the next step (or to the return of the
\* workflow); any other caller (loc.caller = "call") gets the count back.
\* locals are the locals of cleanup_exports at its return.
AfterCleanup(locals, deleted) ==
    CASE loc.caller = "pre" ->
         /\ state' = IF deleted > 0
                     THEN log_step(state, "Pre-cleaned existing exports",
                                   <<ToString(deleted)>>)
                     ELSE state
         /\ pc' = pipeline_next("step_pre_clean")
         /\ out' = out
         /\ loc' = NoLoc
      [] loc.caller = "post" ->
         /\ state' = IF deleted > 0
                     THEN log_step(state, "Post-cleaned exports from document",
                                   <<ToString(deleted)>>)
                     ELSE state
         /\ pc' = pipeline_next("step_post_clean")
         /\ out' = [out EXCEPT !.returned = state.zip_path]
         /\ loc' = NoLoc
      [] OTHER ->
         /\ pc' = "returned"
         /\ loc' = [locals EXCEPT !.deleted = deleted]
         /\ UNCHANGED <<state, out>>

\* A search that does not look at the element type.
find_by_extension_any_type(elements) ==
    LET IsExport(e) == \E ext \in {".dxf", ".pdf"} : EndsWithLower(e.name, ext)
    IN  SelectSeq(elements, IsExport)

\* find_blobs_by_extension (workflow.py 80-100), on a listing
find_blobs_by_extension(elements) ==
    LET IsExport(e) ==
            /\ e.elementType = "BLOB"
            /\ \E ext \in {".dxf", ".pdf"} : EndsWithLower(e.name, ext)
    IN  SelectSeq(elements, IsExport)

\* An exception of cleanup_exports: it ends run_export_workflow when a step
\* called, and reaches the caller otherwise.
RaiseInCleanup(e) ==
    IF loc.caller \in {"pre", "post"}
    THEN Abort(e)
    ELSE /\ pc' = "raised"
         /\ out' = out

\* cleanup_exports (workflow.py 119-140) up to its listing.
cleanup_exports ==
    /\ pc = "cleanup_exports"
    /\ IF ~is_mutable(args.ctx)
       THEN /\ AfterCleanup(loc, 0)
            /\ env' = env
       ELSE \E ok \in ReadOutcomes :
              /\ Charged(~ok)
              /\ IF ~ok
                 THEN /\ RaiseInCleanup("find_blobs_by_extension")
                      /\ loc' = [loc EXCEPT !.listed = @ + 1]
                      /\ state' = state
                 ELSE LET elements == list_elements
                          blobs == find_blobs_by_extension(elements)
                          listed == [loc EXCEPT !.listed = @ + 1,
                                                !.elements = elements]
                      IN  IF blobs = <<>>
                          THEN AfterCleanup(listed, 0)
                          ELSE /\ pc' = "delete_elements"
                               /\ loc' = [listed EXCEPT !.todo = blobs, !.deleted = 0]
                               /\ UNCHANGED <<state, out>>
    /\ UNCHANGED <<args, doc, srv, ps, px, tr, pkg, hist>>

\* delete_elements (workflow.py 103-116): one DELETE per element, a failure
\* is swallowed; then the rest of cleanup_exports and of the step.
delete_elements ==
    /\ pc = "delete_elements"
    /\ IF loc.todo # <<>>
       THEN \E ok \in WriteOutcomes :
              /\ ChargedWrite(ok)
              /\ doc' = IF ok THEN DocWithout(Head(loc.todo).id) ELSE doc
              /\ loc' = [loc EXCEPT !.todo = Tail(@),
                                    !.deleted = IF ok THEN @ + 1 ELSE @,
                                    !.requested = Append(@, Head(loc.todo).id)]
              /\ hist' = Mutating(hist, "delete_element")
              /\ UNCHANGED <<pc, state, out>>
       ELSE /\ AfterCleanup(loc, loc.deleted)
            /\ UNCHANGED <<env, doc, hist>>
    /\ UNCHANGED <<args, srv, ps, px, tr, pkg>>

(***************************************************************************)
(* step_cleanup_temp and cleanup_temp_elements (workflow.py 58-77,         *)
(* 473-476).                                                               *)
(***************************************************************************)
step_cleanup_temp ==
    /\ pc = "step_cleanup_temp"
    /\ \E ok \in ReadOutcomes :
         /\ Charged(~ok)
         /\ IF ~ok
            THEN /\ Abort("cleanup_temp_elements")
                 /\ loc' = loc
            ELSE LET IsTemp(e) == StartsWithTempPrefix(e.name)
                 IN  /\ loc' = [NoLoc EXCEPT !.todo = SelectSeq(list_elements, IsTemp)]
                     /\ pc' = "cleanup_temp_elements"
                     /\ out' = out
    /\ UNCHANGED <<args, doc, srv, state, ps, px, tr, pkg, hist>>

cleanup_temp_elements ==
    /\ pc = "cleanup_temp_elements"
    /\ IF loc.todo # <<>>
       THEN \E ok \in WriteOutcomes :
              /\ ChargedWrite(ok)
              /\ doc' = IF ok THEN DocWithout(Head(loc.todo).id) ELSE doc
              /\ loc' = [loc EXCEPT !.todo = Tail(@),
                                    !.deleted = IF ok THEN @ + 1 ELSE @]
              /\ hist' = Mutating(hist, "delete_element")
              /\ pc' = pc
       ELSE /\ pc' = pipeline_next("step_cleanup_temp")
            /\ loc' = NoLoc
            /\ UNCHANGED <<env, doc, hist>>
    /\ UNCHANGED <<args, srv, state, ps, px, tr, pkg, out>>

(***************************************************************************)
(* step_discover and discover_exportables (workflow.py 145-167, 478-482).  *)
(***************************************************************************)
discover_exportables(elements) ==
    LET IsStudio(e) == e.elementType = "PARTSTUDIO"
        IsDrawing(e) ==
            \/ e.elementType = "DRAWING"
            \/ (e.elementType = "APPLICATION" /\ ContainsDrawing(e.dataType))
        NotTemp(d) == ~StartsWithTempPrefix(d.name)
    IN  [part_studios |-> SelectSeq(elements, IsStudio),
         drawings |-> SelectSeq(SelectSeq(elements, IsDrawing), NotTemp)]

step_discover ==
    /\ pc = "step_discover"
    /\ \E ok \in ReadOutcomes :
         /\ Charged(~ok)
         /\ IF ~ok
            THEN /\ Abort("discover_exportables")
                 /\ state' = state
            ELSE LET found == discover_exportables(list_elements)
                 IN  /\ state' = log_step(
                           [state EXCEPT !.part_studios = found.part_studios,
                                         !.drawings = found.drawings],
                           "Found Part Studios, drawings",
                           <<ToString(Len(found.part_studios)),
                             ToString(Len(found.drawings))>>)
                     /\ pc' = pipeline_next("step_discover")
                     /\ out' = out
    /\ UNCHANGED <<args, doc, srv, loc, ps, px, tr, pkg, hist>>

(***************************************************************************)
(* What the remote side may hold for a Part Studio.                        *)
(***************************************************************************)
Part(partId, name, isFlattenedBody, unflattenedPartId) ==
    [partId |-> partId, name |-> name, isFlattenedBody |-> isFlattenedBody,
     unflattenedPartId |-> unflattenedPartId]

PlateA == Part("A", <<"plateA">>, FALSE, "")

PlateB == Part("B", <<"plateB">>, FALSE, "")

\* the flat pattern of sheet-metal part A
FlatA == Part("F", <<"flatA">>, TRUE, "A")

StudioContent(parts, features) == [parts |-> parts, features |-> features]

Feature(featureId, name, suppressed) ==
    [featureId |-> featureId, name |-> name, suppressed |-> suppressed]

Extrude == Feature("f1", <<"Extrude 1">>, FALSE)

Orient(suppressed) == Feature("f2", <<"Orient Plates for Export">>, suppressed)

\* What the remote side holds for the Part Studio being exported.
TheStudio == srv[TheValue(ps.eid)[2]]

\* GET /parts/.../e/{eid} (client.py 137-145): with includeFlatParts the
\* flat patterns are listed too, without it only the solid parts.
list_parts(include_flat_parts) ==
    LET Solid(p) == ~p.isFlattenedBody
    IN  IF include_flat_parts THEN TheStudio.parts
        ELSE SelectSeq(TheStudio.parts, Solid)

\* GET /partstudios/.../features (client.py 131-134)
get_features == TheStudio.features

\* The features after a POST of the feature with the given suppressed flag
\* (client.py 356-373).
FeaturesWith(features, featureId, suppressed) ==
    [i \in 1..Len(features) |->
        IF features[i].featureId = featureId
        THEN [features[i] EXCEPT !.suppressed = suppressed]
        ELSE features[i]]

\* The suppressed flag the remote side holds for a feature.
SuppressedFlag(featureId) ==
    LET features == TheStudio.features
        i == CHOOSE j \in 1..Len(features) : features[j].featureId = featureId
    IN  features[i].suppressed

(***************************************************************************)
(* step_export_dxfs (workflow.py 484-492).                                 *)
(***************************************************************************)
step_export_dxfs ==
    /\ pc = "step_export_dxfs"
    /\ loc' = [NoLoc EXCEPT !.state = state, !.results = state.results, !.i = 1]
    /\ pc' = "dxfs_loop"
    /\ UNCHANGED <<args, env, doc, srv, state, ps, px, tr, pkg, out, hist>>

\* The head of the loop over the Part Studios: the next call of
\* export_part_studio, or the return of the step.
dxfs_loop ==
    /\ pc = "dxfs_loop"
    /\ IF loc.i <= Len(loc.state.part_studios)
       THEN /\ ps' = [NoPs EXCEPT !.eid = Some(loc.state.part_studios[loc.i].id)]
            /\ pc' = "ps_list_parts"
            /\ UNCHANGED <<state, loc>>
       ELSE /\ state' = [loc.state EXCEPT !.results = loc.results]
            /\ pc' = pipeline_next("step_export_dxfs")
            /\ loc' = NoLoc
            /\ ps' = ps
    /\ UNCHANGED <<args, env, doc, srv, px, tr, pkg, out, hist>>

(***************************************************************************)
(* export_part_studio (workflow.py 258-330).                               *)
(***************************************************************************)
\* lines 278-280: the part list with the flat patterns, categorized
ps_list_parts ==
    /\ pc = "ps_list_parts"
    /\ \E ok \in ReadOutcomes :
         /\ Charged(~ok)
         /\ IF ~ok
            THEN /\ Abort("list_parts")
                 /\ ps' = ps
            ELSE /\ LET cat == categorize_parts(list_parts(TRUE))
                    IN  ps' = [ps EXCEPT !.flat_patterns = cat.flat_patterns,
                                         !.regular_parts = cat.regular_parts,
                                         !.phase = 1, !.i = 1]
                 /\ pc' = "ps_flat_loop"
                 /\ out' = out
    /\ UNCHANGED <<args, doc, srv, state, loc, px, tr, pkg, hist>>

\* The call export_part_as_dxf(client, ctx, eid, part) (lines 208-209).
CallExportPart(part) ==
    /\ px' = [NoPx EXCEPT !.part = Some(part), !.name = part.name]
    /\ ps' = [ps EXCEPT !.attempted = Append(@, part.partId)]
    /\ pc' = "dxf_create"

\* lines 285-298: the loop over the flat patterns, then the test for
\* regular parts
ps_flat_loop ==
    /\ pc = "ps_flat_loop"
    /\ IF ps.i <= Len(ps.flat_patterns)
       THEN CallExportPart(ps.flat_patterns[ps.i])
       ELSE /\ pc' = IF ps.regular_parts = <<>> THEN "ps_return" ELSE "ps_get_features"
            /\ UNCHANGED <<ps, px>>
    /\ UNCHANGED <<args, env, doc, srv, state, loc, tr, pkg, out, hist>>

\* lines 300-305: the features, and the orientation feature among them
ps_get_features ==
    /\ pc = "ps_get_features"
    /\ \E ok \in ReadOutcomes :
         /\ Charged(~ok)
         /\ IF ~ok
            THEN /\ Abort("get_features")
                 /\ ps' = ps
            ELSE LET features == get_features
                 IN  /\ ps' = [ps EXCEPT !.orient_feature = find_orient_feature(features)]
                     /\ pc' = IF find_orient_feature(features) = None
                              THEN "ps_return" ELSE "ps_unsuppress"
                     /\ out' = out
    /\ UNCHANGED <<args, doc, srv, state, loc, px, tr, pkg, hist>>

\* lines 307-309: update_feature_suppression(..., False), outside the try
ps_unsuppress ==
    /\ pc = "ps_unsuppress"
    /\ hist' = Mutating(hist, "update_feature_suppression")
    /\ \E ok \in WriteOutcomes :
         /\ ChargedWrite(ok)
         /\ IF ~ok
            THEN /\ Abort("update_feature_suppression")
                 /\ UNCHANGED <<srv, ps>>
            ELSE /\ srv' = [srv EXCEPT ![TheValue(ps.eid)[2]].features =
                               FeaturesWith(@, TheValue(ps.orient_feature).featureId, FALSE)]
                 /\ ps' = [ps EXCEPT !.guard = "open"]
                 /\ pc' = "ps_refetch"
                 /\ out' = out
    /\ UNCHANGED <<args, doc, state, loc, px, tr, pkg>>

\* A try block without a finally clause: an exception leaves the function
\* at once.
try_exit_unguarded(exc) == IF exc = None THEN "ps_resuppress" ELSE "failed"

\* lines 311-328: where the try block is left to, normally (exc = None) or
\* by an exception: the finally clause.
try_exit(exc) == "ps_resuppress"

\* lines 311-314: the settle delay and the re-fetch of the parts
ps_refetch ==
    /\ pc = "ps_refetch"
    /\ \E ok \in ReadOutcomes :
         /\ Charged(~ok)
         /\ IF ~ok
            THEN /\ ps' = [ps EXCEPT !.exc = Some("list_parts")]
                 /\ pc' = try_exit(Some("list_parts"))
            ELSE /\ ps' = [ps EXCEPT !.oriented_parts = list_parts(FALSE),
                                     !.phase = 2, !.i = 1]
                 /\ pc' = "ps_part_loop"
    /\ UNCHANGED <<args, doc, srv, state, loc, px, tr, pkg, out, hist>>

\* lines 316-323: the loop over the re-fetched parts
ps_part_loop ==
    /\ pc = "ps_part_loop"
    /\ IF ps.i <= Len(ps.oriented_parts)
       THEN CallExportPart(ps.oriented_parts[ps.i])
       ELSE /\ pc' = try_exit(None)
            /\ UNCHANGED <<ps, px>>
    /\ UNCHANGED <<args, env, doc, srv, state, loc, tr, pkg, out, hist>>

\* lines 325-328: the finally clause, update_feature_suppression(..., True);
\* an exception of the try block goes on to the caller after it.
ps_resuppress ==
    /\ pc = "ps_resuppress"
    /\ hist' = Mutating(hist, "update_feature_suppression")
    /\ ps' = [ps EXCEPT !.guard = "closed"]
    /\ \E ok \in WriteOutcomes :
         /\ ChargedWrite(ok)
         /\ IF ~ok
            THEN /\ Abort("update_feature_suppression")
                 /\ srv' = srv
            ELSE /\ srv' = [srv EXCEPT ![TheValue(ps.eid)[2]].features =
                               FeaturesWith(@, TheValue(ps.orient_feature).featureId, TRUE)]
                 /\ IF ps.exc # None
                    THEN Abort(TheValue(ps.exc))
                    ELSE pc' = "ps_return" /\ out' = out
    /\ UNCHANGED <<args, doc, state, loc, px, tr, pkg>>

\* The return of export_part_studio into step_export_dxfs (lines 488-491):
\* the results are added and one entry is logged for each.
LogExported(st, results) ==
    [st EXCEPT !.log_entries =
        @ \o [k \in 1..Len(results) |-> LogEntry("Exported", results[k][2])]]

ps_return ==
    /\ pc = "ps_return"
    /\ loc' = [loc EXCEPT !.results = @ \o ps.results,
                          !.state = LogExported(@, ps.results),
                          !.i = @ + 1]
    /\ ps' = NoPs
    /\ pc' = "dxfs_loop"
    /\ UNCHANGED <<args, env, doc, srv, state, px, tr, pkg, out, hist>>

(***************************************************************************)
(* export_part_as_dxf (workflow.py 194-255).                               *)
(***************************************************************************)
\* The id the remote side gives the temporary drawing of a part, and the
\* one it gives the blob a translation of element eid stores.
TempId(part) == <<"temp", loc.i, part.partId>>

BlobId(eid) == <<"blob", eid[2], eid[3]>>

\* next((e for e in elements if e['id'] == eid), None)
FindElement(elements, eid) ==
    LET Same(e) == e.id = eid
        found == SelectSeq(elements, Same)
    IN  IF found = <<>> THEN None ELSE Some(Head(found))

\* lines 211-216: create_drawing; no id in the answer returns None
dxf_create ==
    /\ pc = "dxf_create"
    /\ hist' = Mutating(hist, "create_drawing")
    /\ \E ok \in WriteOutcomes, has_id \in AnswerOutcomes :
         /\ ChargedWrite(ok /\ has_id)
         /\ IF ~ok
            THEN /\ px' = [px EXCEPT !.exc = Some("create_drawing"),
                                     !.failed = @ \cup {"create_drawing"},
                                     !.issued = Append(@, "create_drawing")]
                 /\ pc' = "part_end"
                 /\ doc' = doc
            ELSE IF ~has_id
                   THEN /\ px' = [px EXCEPT !.failed = @ \cup {"create_drawing"},
                                            !.issued = Append(@, "create_drawing")]
                        /\ pc' = "part_end"
                        /\ doc' = doc
                   ELSE LET id == TempId(TheValue(px.part))
                        IN  /\ doc' = Append(doc, Element(id, <<"TEMP_">> \o px.name \o <<"_ts">>,
                                                          "APPLICATION", "onshape-app/drawing"))
                            /\ px' = [px EXCEPT !.temp_drawing_id = Some(id),
                                                !.issued = Append(@, "create_drawing")]
                            /\ pc' = "dxf_get_mv"
    /\ UNCHANGED <<args, srv, state, loc, ps, tr, pkg, out>>

\* get_element_microversion (client.py 622-626)
get_element_microversion(elements, eid) ==
    LET element == FindElement(elements, eid)
    IN  IF element # None THEN Some(TheValue(element).microversionId) ELSE None

\* line 218: the version marker before the view is inserted; the listing is
\* requested before the try block.  A drawing just created may not be listed yet.
dxf_get_mv ==
    /\ pc = "dxf_get_mv"
    /\ \E ok \in ReadOutcomes, listed \in AnswerOutcomes :
         /\ Charged(~(ok /\ listed))
         /\ IF ~ok
            THEN /\ px' = [px EXCEPT !.exc = Some("get_element_microversion"),
                                     !.failed = @ \cup {"get_element_microversion"}]
                 /\ pc' = "part_end"
            ELSE   /\ px' = [px EXCEPT !.old_mv =
                               IF listed
                               THEN get_element_microversion(list_elements,
                                                             TheValue(px.temp_drawing_id))
                               ELSE get_element_microversion(<<>>,
                                                             TheValue(px.temp_drawing_id))]
                   /\ pc' = "dxf_add_view"
    /\ UNCHANGED <<args, doc, srv, state, loc, ps, tr, pkg, out, hist>>

\* line 223: add_view_to_drawing, the first statement of the try block
dxf_add_view ==
    /\ pc = "dxf_add_view"
    /\ hist' = Mutating(hist, "add_view_to_drawing")
    /\ \E ok \in WriteOutcomes :
         /\ ChargedWrite(ok)
         /\ IF ~ok
            THEN /\ px' = [px EXCEPT !.exc = Some("add_view_to_drawing"),
                                     !.failed = @ \cup {"add_view_to_drawing"}]
                 /\ pc' = "dxf_finally"
                 /\ tr' = tr
            ELSE /\ tr' = [NoTr EXCEPT !.caller = "dxf", !.eid = px.temp_drawing_id]
                 /\ pc' = "wait_for_microversion_change"
                 /\ px' = px
    /\ UNCHANGED <<args, doc, srv, state, loc, ps, pkg, out>>

(***************************************************************************)
(* wait_for_microversion_change (client.py 576-609).                       *)
(***************************************************************************)
\* fetch of either poll (client.py 523-528, 586-592): a raising request is
\* logged and answered with None; px.failed keeps the history of it.
FetchLogged(export, error, fetch) ==
    IF error THEN [export EXCEPT !.failed = @ \cup {fetch}] ELSE export

RenderTimeout == RenderPolls * PollInterval

\* The document a listing is taken from: the drawing may have been rendered
\* since the last fetch (its version marker changes), or removed from outside.
WaitResponses == {"error", "gone", "pending", "rendered"}

DocAfter(resp, eid) ==
    CASE resp = "gone" -> DocWithout(eid)
      [] resp = "rendered" ->
            [i \in 1..Len(doc) |->
                IF doc[i].id = eid THEN [doc[i] EXCEPT !.microversionId = "mv2"]
                ELSE doc[i]]
      [] OTHER -> doc

check_microversion(element, old_mv) ==
    IF element = None
    THEN Some("__NOT_FOUND__")
    ELSE LET new_mv == TheValue(element).microversionId
         IN  IF new_mv # "" /\ Some(new_mv) # old_mv THEN Some(new_mv) ELSE None

\* One turn of poll_until in wait_for_microversion_change, and lines 224-227
\* of export_part_as_dxf when the wait is over.
wait_for_microversion_change ==
    /\ pc = "wait_for_microversion_change"
    /\ IF ~PollRunning(tr.elapsed, RenderTimeout)
       THEN /\ px' = [px EXCEPT !.failed = @ \cup {"render_wait", "timeout"}]
            /\ pc' = "dxf_finally"
            /\ tr' = NoTr
            /\ UNCHANGED <<env, doc>>
       ELSE \E resp \in WaitResponses :
              LET eid == TheValue(tr.eid)
                  after == DocAfter(resp, eid)
                  \* fetch (lines 586-592): None when the listing raises
                  result == IF resp = "error" THEN None ELSE FindElement(after, eid)
                  Pred(r) == check_microversion(r, px.old_mv)
                  match == PollMatch(result, Pred(result))
                  seen == IF resp = "error" THEN "error"
                          ELSE IF result = None THEN "absent" ELSE "present"
              IN  /\ resp \in {"error", "gone"} => env.faults > 0
                  /\ Charged(resp \in {"error", "gone"})
                  /\ doc' = after
                  /\ IF match = None
                     THEN /\ tr' = [tr EXCEPT !.elapsed = @ + PollInterval,
                                              !.fetched = seen]
                          /\ px' = FetchLogged(px, resp = "error", "fetch elements")
                          /\ pc' = pc
                     ELSE IF match = Some("__NOT_FOUND__")
                     THEN /\ px' = [px EXCEPT !.failed = @ \cup {"render_wait"}]
                          /\ pc' = "dxf_finally"
                          /\ tr' = NoTr
                     ELSE /\ pc' = "dxf_thickness"
                          /\ tr' = NoTr
                          /\ px' = px
    /\ UNCHANGED <<args, srv, state, loc, ps, pkg, out, hist>>

(***************************************************************************)
(* Metadata (client.py 182-196, 216-282).                                  *)
(***************************************************************************)
\* GET .../boundingboxes (client.py 185-190): highZ - lowZ of the part, in
\* hundredths of a millimetre
bounding_box_z == env.z_height

\* get_part_thickness: None below 0.01 mm
get_part_thickness(z_height) == IF z_height > 1 THEN Some(z_height) ELSE None

Properties(part_number, revision, material) ==
    [part_number |-> part_number, revision |-> revision, material |-> material]

extract_properties_from_lookup(prop_lookup, include_material) ==
    [part_number |-> prop_lookup.part_number,
     revision |-> prop_lookup.revision,
     material |-> IF include_material THEN prop_lookup.material ELSE <<>>]

\* lines 229-232: get_part_thickness swallows a failing request
dxf_thickness ==
    /\ pc = "dxf_thickness"
    /\ \E ok \in ReadOutcomes :
         /\ Charged(~ok)
         /\ px' = [px EXCEPT !.thickness =
                     IF ok THEN get_part_thickness(bounding_box_z) ELSE None]
    /\ pc' = "dxf_props"
    /\ UNCHANGED <<args, doc, srv, state, loc, ps, tr, pkg, out, hist>>

\* lines 234-243: get_part_properties swallows a failing request; the
\* filename; the call of execute_translation
dxf_props ==
    /\ pc = "dxf_props"
    /\ \E ok \in ReadOutcomes :
         LET props == IF ok THEN extract_properties_from_lookup(env.lookup, TRUE)
                      ELSE NoProps
         IN  /\ Charged(~ok)
             /\ px' = [px EXCEPT !.props = props,
                                 !.filename = build_dxf_filename(px.name, px.thickness, props)]
    /\ tr' = [NoTr EXCEPT !.caller = "dxf", !.eid = px.temp_drawing_id,
                          !.destination_name = px.name, !.extension = ".dxf"]
    /\ pc' = "initiate_translation"
    /\ UNCHANGED <<args, doc, srv, state, loc, ps, pkg, out, hist>>

(***************************************************************************)
(* execute_translation, initiate_translation, poll_translation and         *)
(* rename_element (client.py 382-413, 493-573).                            *)
(***************************************************************************)
TranslationTimeout == TranslationPolls * PollInterval

\* An execute_translation that starts over when there is no result.
ReturnTranslationRetrying(export, result) ==
    IF result = None
    THEN /\ pc' = "initiate_translation"
         /\ tr' = [tr EXCEPT !.elapsed = 0, !.result_id = None, !.fetched = ""]
         /\ px' = export
    ELSE /\ px' = [export EXCEPT !.ret = result]
         /\ pc' = IF tr.caller = "dxf" THEN "dxf_finally" ELSE "pdf_end"
         /\ tr' = NoTr

\* execute_translation returns to export_part_as_dxf (lines 243-248, then
\* the finally clause) or to export_drawing_as_pdf (lines 371-376).
ReturnTranslation(export, result) ==
    /\ px' = [export EXCEPT !.ret = result,
                        !.failed = IF result = None
                                   THEN @ \cup {"translation"}
                                          \cup (IF tr.fetched = "timeout"
                                                THEN {"timeout"} ELSE {})
                                   ELSE @]
    /\ pc' = IF tr.caller = "dxf" THEN "dxf_finally" ELSE "pdf_end"
    /\ tr' = NoTr

\* lines 562-565: a raising request leaves execute_translation and its
\* caller; export_part_as_dxf runs its finally clause on the way.
initiate_translation ==
    /\ pc = "initiate_translation"
    /\ \E ok \in ReadOutcomes, has_id \in AnswerOutcomes :
         LET export == [px EXCEPT !.issued = Append(@, "initiate_translation")]
         IN  /\ Charged(~(ok /\ has_id))
             /\ IF ~ok
                THEN /\ px' = [export EXCEPT !.exc = Some("initiate_translation"),
                                             !.failed = @ \cup {"initiate_translation"}]
                     /\ tr' = NoTr
                     /\ IF tr.caller = "dxf"
                        THEN pc' = "dxf_finally" /\ out' = out
                        ELSE Abort("initiate_translation")
                ELSE   /\ IF has_id
                          THEN /\ pc' = "poll_translation"
                               /\ px' = export
                               /\ tr' = tr
                          ELSE ReturnTranslation(export, None)
                       /\ out' = out
    /\ UNCHANGED <<args, doc, srv, state, loc, ps, pkg, hist>>

\* What GET /translations/{id} may answer for a job on element eid.
Status(requestState, resultElementIds) ==
    [requestState |-> requestState, resultElementIds |-> resultElementIds]

StatusResponses(eid) ==
    {Status("ACTIVE", <<>>), Status("FAILED", <<>>), Status("DONE", <<>>),
     Status("DONE", <<BlobId(eid)>>),
     Status("DONE", <<BlobId(eid), <<"blob2", eid[2], eid[3]>>>>)}

\* The answers of a job that runs and then stores one result.
PlainStatuses(eid) == {Status("ACTIVE", <<>>), Status("DONE", <<BlobId(eid)>>)}

\* A classification that takes a finished job without results for a success.
check_state_done_is_success(resp) ==
    IF resp.requestState = "DONE"
    THEN [ret |-> IF resp.resultElementIds # <<>>
                  THEN Some(resp.resultElementIds[1]) ELSE Some(<<"blob", 0, "">>),
          error_occurred |-> FALSE]
    ELSE IF resp.requestState = "FAILED"
         THEN [ret |-> Some("__ERROR__"), error_occurred |-> TRUE]
         ELSE [ret |-> None, error_occurred |-> FALSE]

\* A classification that takes the last result element of a finished job.
check_state_last_id(resp) ==
    IF resp.requestState = "DONE"
    THEN IF resp.resultElementIds # <<>>
         THEN [ret |-> Some(resp.resultElementIds[Len(resp.resultElementIds)]),
               error_occurred |-> FALSE]
         ELSE [ret |-> Some("__ERROR__"), error_occurred |-> TRUE]
    ELSE IF resp.requestState = "FAILED"
         THEN [ret |-> Some("__ERROR__"), error_occurred |-> TRUE]
         ELSE [ret |-> None, error_occurred |-> FALSE]

\* check_state (lines 532-545): what poll_until gets, and error_occurred
check_state(resp) ==
    IF resp.requestState = "DONE"
    THEN IF resp.resultElementIds # <<>>
         THEN [ret |-> Some(resp.resultElementIds[1]), error_occurred |-> FALSE]
         ELSE [ret |-> Some("__ERROR__"), error_occurred |-> TRUE]
    ELSE IF resp.requestState = "FAILED"
         THEN [ret |-> Some("__ERROR__"), error_occurred |-> TRUE]
         ELSE [ret |-> None, error_occurred |-> FALSE]

\* The document after the job stored its results: blobs named after the
\* destination name.
DocWithBlobs(ids, name) ==
    doc \o [k \in 1..Len(ids) |-> Element(ids[k], name, "BLOB", "")]

\* One turn of poll_until in poll_translation (lines 519-550).
poll_translation ==
    /\ pc = "poll_translation"
    /\ IF ~PollRunning(tr.elapsed, TranslationTimeout)
       THEN /\ tr' = [tr EXCEPT !.result_id = None, !.fetched = "timeout"]
            /\ pc' = "execute_translation"
            /\ UNCHANGED <<env, doc, px>>
       ELSE \E error \in BOOLEAN, resp \in StatusResponses(TheValue(tr.eid)) :
              LET \* fetch (lines 523-528): None when the request raises
                  result == IF error THEN None ELSE Some(resp)
                  Pred(r) == check_state(TheValue(r)).ret
                  match == PollMatch(result, Pred(result))
                  error_occurred ==
                      result # None /\ check_state(TheValue(result)).error_occurred
                  seen == IF error THEN "error"
                          ELSE IF resp.requestState = "DONE" /\ resp.resultElementIds = <<>>
                               THEN "DONE_EMPTY" ELSE resp.requestState
                  fault == error \/ resp \notin PlainStatuses(TheValue(tr.eid))
              IN  /\ fault => env.faults > 0
                  /\ Charged(fault)
                  /\ IF match = None
                     THEN /\ tr' = [tr EXCEPT !.elapsed = @ + PollInterval,
                                              !.fetched = seen]
                          /\ px' = FetchLogged(px, error, "poll translation")
                          /\ UNCHANGED <<pc, doc>>
                     ELSE /\ tr' = [tr EXCEPT !.fetched = seen,
                                       !.result_id = IF error_occurred THEN None ELSE match]
                          /\ pc' = "execute_translation"
                          /\ px' = px
                          /\ doc' = DocWithBlobs(resp.resultElementIds,
                                                 tr.destination_name \o <<tr.extension>>)
    /\ UNCHANGED <<args, srv, state, loc, ps, pkg, out, hist>>

\* execute_translation after poll_translation (lines 567-570)
execute_translation ==
    /\ pc = "execute_translation"
    /\ IF tr.result_id = None
       THEN ReturnTranslation(px, None)
       ELSE /\ pc' = "rename_element"
            /\ UNCHANGED <<px, tr>>
    /\ UNCHANGED <<args, env, doc, srv, state, loc, ps, pkg, out, hist>>

\* The listing with element eid renamed.
DocRenamed(eid, new_name) ==
    [i \in 1..Len(doc) |->
        IF doc[i].id = eid THEN [doc[i] EXCEPT !.name = new_name] ELSE doc[i]]

\* rename_element swallows its failures (lines 572-573, 382-413)
rename_element ==
    /\ pc = "rename_element"
    /\ \E ok \in ReadOutcomes :
         /\ Charged(~ok)
         /\ doc' = IF ok THEN DocRenamed(TheValue(tr.result_id), px.filename) ELSE doc
         /\ px' = [px EXCEPT !.ret = Some(<<TheValue(tr.result_id), px.filename>>),
                             !.failed = IF ok THEN @ ELSE @ \cup {"rename_element"}]
    /\ pc' = IF tr.caller = "dxf" THEN "dxf_finally" ELSE "pdf_end"
    /\ tr' = NoTr
    /\ UNCHANGED <<args, srv, state, loc, ps, pkg, out, hist>>

(***************************************************************************)
(* The end of export_part_as_dxf and its return into export_part_studio.   *)
(***************************************************************************)
\* lines 250-255: the finally clause; a failing DELETE is swallowed
dxf_finally ==
    /\ pc = "dxf_finally"
    /\ hist' = Mutating(hist, "delete_element")
    /\ \E ok \in WriteOutcomes :
         /\ ChargedWrite(ok)
         /\ doc' = IF ok THEN DocWithout(TheValue(px.temp_drawing_id)) ELSE doc
         /\ px' = [px EXCEPT !.delete_issued = TRUE,
                             !.failed = IF ok THEN @ ELSE @ \cup {"delete_element"}]
    /\ pc' = "part_end"
    /\ UNCHANGED <<args, srv, state, loc, ps, tr, pkg, out>>

\* A loop over the parts without an except clause.
loop_catches_nothing(exc) == FALSE

\* except Exception (workflow.py 292, 322): the loop over the parts
\* catches what export_part_as_dxf raises.
loop_catches(exc) == TRUE

\* The ways an export ends without a result.
HardFailures ==
    {"create_drawing", "get_element_microversion", "add_view_to_drawing",
     "render_wait", "initiate_translation", "translation"}

\* lines 287-293 and 318-323: the result is appended, an exception logged
part_end ==
    /\ pc = "part_end"
    /\ LET item == BlobId(TempId(TheValue(px.part)))
       IN  hist' = [hist EXCEPT
                      !.item_failed =
                          IF px.failed \cap HardFailures # {} THEN @ \cup {item} ELSE @,
                      !.delete_failed =
                          IF "delete_element" \in px.failed THEN @ \cup {item} ELSE @,
                      !.timed_out =
                          IF "timeout" \in px.failed THEN @ \cup {item} ELSE @]
    /\ IF px.exc # None /\ ~loop_catches(px.exc)
       THEN /\ Abort(TheValue(px.exc))
            /\ UNCHANGED <<ps, px>>
       ELSE /\ ps' = [ps EXCEPT
                        !.results = IF px.exc = None /\ px.ret # None
                                    THEN Append(@, TheValue(px.ret)) ELSE @,
                        !.i = @ + 1]
            /\ pc' = IF ps.phase = 1 THEN "ps_flat_loop" ELSE "ps_part_loop"
            /\ px' = NoPx
            /\ out' = out
    /\ UNCHANGED <<args, env, doc, srv, state, loc, tr, pkg>>

(***************************************************************************)
(* step_export_pdfs and export_drawing_as_pdf (workflow.py 333-376,        *)
(* 494-502).                                                               *)
(***************************************************************************)
step_export_pdfs ==
    /\ pc = "step_export_pdfs"
    /\ loc' = [NoLoc EXCEPT !.state = state, !.results = state.results, !.i = 1]
    /\ pc' = "pdfs_loop"
    /\ UNCHANGED <<args, env, doc, srv, state, ps, px, tr, pkg, out, hist>>

\* The head of the loop over the drawings: the next call of
\* export_drawing_as_pdf, or the return of the step.
pdfs_loop ==
    /\ pc = "pdfs_loop"
    /\ IF loc.i <= Len(loc.state.drawings)
       THEN /\ px' = [NoPx EXCEPT !.eid = Some(loc.state.drawings[loc.i].id),
                                  !.name = loc.state.drawings[loc.i].name]
            /\ loc' = [loc EXCEPT !.attempted = Append(@, loc.state.drawings[loc.i].id)]
            /\ pc' = "pdf_refs"
            /\ state' = state
       ELSE /\ state' = [loc.state EXCEPT !.results = loc.results]
            /\ pc' = pipeline_next("step_export_pdfs")
            /\ loc' = NoLoc
            /\ px' = px
    /\ UNCHANGED <<args, env, doc, srv, ps, tr, pkg, out, hist>>

\* What the reference lookup of a drawing may answer.
Reference(targetElementId) == [targetElementId |-> targetElementId]

ReferenceLists == {<<>>, <<Reference("")>>, <<Reference("ps1")>>}

\* The call of execute_translation at line 371, with the filename of line 368.
CallTranslatePdf(props) ==
    /\ tr' = [NoTr EXCEPT !.caller = "pdf", !.eid = px.eid,
                          !.destination_name = px.name, !.extension = ".pdf"]
    /\ pc' = "initiate_translation"

\* lines 353-359: get_drawing_references swallows a failing request
pdf_refs ==
    /\ pc = "pdf_refs"
    /\ \E ok \in ReadOutcomes, answer \in ReferenceLists :
         LET refs == IF ok THEN answer ELSE <<>>
             failed == IF ok THEN px.failed ELSE px.failed \cup {"get_drawing_references"}
         IN  /\ Charged(~ok)
             /\ IF refs # <<>> /\ refs[1].targetElementId # ""
                THEN /\ px' = [px EXCEPT !.failed = failed]
                     /\ pc' = "pdf_props"
                     /\ tr' = tr
                ELSE /\ px' = [px EXCEPT !.failed = failed,
                                         !.filename = build_pdf_filename(px.name, NoProps)]
                     /\ CallTranslatePdf(NoProps)
    /\ UNCHANGED <<args, doc, srv, state, loc, ps, pkg, out, hist>>

\* lines 360-371: get_element_properties swallows a failing request
pdf_props ==
    /\ pc = "pdf_props"
    /\ \E ok \in ReadOutcomes :
         LET props == IF ok THEN extract_properties_from_lookup(env.lookup, FALSE)
                      ELSE NoProps
         IN  /\ Charged(~ok)
             /\ px' = [px EXCEPT
                         !.props = props,
                         !.filename = build_pdf_filename(px.name, props),
                         !.failed = IF ok THEN @ ELSE @ \cup {"get_element_properties"}]
             /\ CallTranslatePdf(props)
    /\ UNCHANGED <<args, doc, srv, state, loc, ps, pkg, out, hist>>

\* lines 498-501: the result of export_drawing_as_pdf is appended and logged
pdf_end ==
    /\ pc = "pdf_end"
    /\ loc' = [loc EXCEPT
                 !.results = IF px.ret # None THEN Append(@, TheValue(px.ret)) ELSE @,
                 !.state = IF px.ret # None
                           THEN log_step(@, "Exported", TheValue(px.ret)[2]) ELSE @,
                 !.i = @ + 1]
    /\ hist' = [hist EXCEPT
                  !.item_failed = IF px.failed \cap HardFailures # {}
                                  THEN @ \cup {BlobId(TheValue(px.eid))} ELSE @,
                  !.timed_out = IF "timeout" \in px.failed
                                THEN @ \cup {BlobId(TheValue(px.eid))} ELSE @]
    /\ px' = NoPx
    /\ pc' = "pdfs_loop"
    /\ UNCHANGED <<args, env, doc, srv, state, ps, tr, pkg, out>>

(***************************************************************************)
(* step_package and package_results (workflow.py 379-429, 504-515).        *)
(***************************************************************************)
\* str.replace(' ', '_').replace('/', '_') on the tokens that hold a space
\* or a slash
SanitizeToken(t) ==
    CASE t = " " -> "_"
      [] t = "/" -> "_"
      [] t = "_Rev " -> "_Rev_"
      [] OTHER -> t

SafeName(filename) == [k \in 1..Len(filename) |-> SanitizeToken(filename[k])]

\* A lookup that finds no name.
SeenIdNever(seen, safe_name) == None

\* seen_filenames is a list of <<safe_name, first element id>>
SeenId(seen, safe_name) ==
    LET Same(e) == e[1] = safe_name
        hits == SelectSeq(seen, Same)
    IN  IF hits = <<>> THEN None ELSE Some(Head(hits)[2])

\* A return that logs nothing.
AfterPackageUnlogged(zip_path, collision_warnings) ==
    /\ state' = [state EXCEPT !.zip_path = zip_path,
                              !.collision_warnings = collision_warnings]
    /\ pc' = pipeline_next("step_package")
    /\ pkg' = NoPkg

\* The return of package_results into step_package (lines 508-515).
AfterPackage(zip_path, collision_warnings) ==
    /\ state' = LET st == [state EXCEPT !.zip_path = zip_path,
                                        !.collision_warnings = collision_warnings]
                IN  IF zip_path # None
                    THEN log_step(st, "SUCCESS", <<>>)
                    ELSE log_step(st, "No files were exported", <<>>)
    /\ pc' = pipeline_next("step_package")
    /\ pkg' = NoPkg

\* lines 393-405: nothing to package, or the archive is opened for writing
step_package ==
    /\ pc = "step_package"
    /\ IF state.results = <<>>
       THEN /\ AfterPackage(None, <<>>)
            /\ out' = out
       ELSE /\ pkg' = [NoPkg EXCEPT !.i = 1, !.zip_path = Some("onshape_export.zip")]
            /\ out' = [out EXCEPT !.archive = Some(<<>>)]
            /\ pc' = "package_results"
            /\ state' = state
    /\ UNCHANGED <<args, env, doc, srv, loc, ps, px, tr, hist>>

ArchiveEntry(name, content) == [name |-> name, content |-> content]

\* lines 406-429: one result per step, then the log entry and the return
package_results ==
    /\ pc = "package_results"
    /\ IF pkg.i <= Len(state.results)
       THEN LET result_id == state.results[pkg.i][1]
                safe_name == SafeName(state.results[pkg.i][2])
                first_id == SeenId(pkg.seen_filenames, safe_name)
            IN  IF first_id # None
                THEN /\ pkg' = [pkg EXCEPT
                                  !.collision_warnings =
                                      Append(@, [name |-> safe_name,
                                                 kept |-> TheValue(first_id),
                                                 skipped |-> result_id]),
                                  !.i = @ + 1]
                     /\ UNCHANGED <<env, out, state, pc>>
                ELSE \E ok \in ReadOutcomes :
                       /\ Charged(~ok)
                       /\ pkg' = [pkg EXCEPT
                                    !.seen_filenames = Append(@, <<safe_name, result_id>>),
                                    !.i = @ + 1]
                       /\ out' = IF ok
                                 THEN [out EXCEPT !.archive =
                                         Some(Append(TheValue(@),
                                                     ArchiveEntry(safe_name, <<result_id>>)))]
                                 ELSE out
                       /\ UNCHANGED <<state, pc>>
       ELSE /\ out' = [out EXCEPT !.archive =
                         Some(Append(TheValue(@),
                                     ArchiveEntry(<<"export_operation.log">>,
                                                  state.log_entries)))]
            /\ AfterPackage(pkg.zip_path, pkg.collision_warnings)
            /\ env' = env
    /\ UNCHANGED <<args, doc, srv, loc, ps, px, tr, hist>>

(***************************************************************************)
(* The state after construction: the arguments of run_export_workflow, the *)
(* remote document and what its requests will meet, and the first step.    *)
(***************************************************************************)
\* What a Part Studio of the document may hold.
StudioContents ==
    {StudioContent(<<>>, <<Extrude>>),
     StudioContent(<<PlateB>>, <<Extrude>>),
     StudioContent(<<PlateB>>, <<Orient(FALSE)>>),
     StudioContent(<<FlatA, PlateA, PlateB>>, <<Extrude, Orient(TRUE)>>)}

\* What the metadata requests of a run answer: nothing usable, or a
\* thickness of 3 mm and all three properties.
Environments ==
    {[faults |-> MaxFaults, z_height |-> 0, lookup |-> NoProps],
     [faults |-> MaxFaults, z_height |-> 300,
      lookup |-> Properties(<<"PN1">>, <<"A">>, <<"STEEL">>)]}

Outcome == [archive |-> None, critical_error |-> None, raised_in |-> "",
            returned |-> None]

Init ==
    /\ args \in [ctx : Contexts, clean_before : BOOLEAN, clean_after : BOOLEAN]
    /\ \E nPS \in 0..MaxStudios, nDR \in 0..MaxDrawings, stale \in BOOLEAN :
           \* stale: an earlier run left a temporary drawing and a blob behind
           /\ doc = InitialDoc(nPS, nDR, stale, stale)
           /\ srv \in [1..nPS -> StudioContents]
    /\ env \in Environments
    /\ pc = "step_init"
    /\ state = initial_state(args.ctx)
    /\ loc = NoLoc
    /\ ps = NoPs
    /\ px = NoPx
    /\ tr = NoTr
    /\ pkg = NoPkg
    /\ out = Outcome
    /\ hist = NoHist

(***************************************************************************)
(* The run.                                                                *)
(***************************************************************************)
Next ==
    \/ step_init
    \/ step_pre_clean
    \/ cleanup_exports
    \/ delete_elements
    \/ step_cleanup_temp
    \/ cleanup_temp_elements
    \/ step_discover
    \/ step_export_dxfs
    \/ dxfs_loop
    \/ ps_list_parts
    \/ ps_flat_loop
    \/ ps_get_features
    \/ ps_unsuppress
    \/ ps_refetch
    \/ ps_part_loop
    \/ ps_resuppress
    \/ ps_return
    \/ dxf_create
    \/ dxf_get_mv
    \/ dxf_add_view
    \/ wait_for_microversion_change
    \/ dxf_thickness
    \/ dxf_props
    \/ initiate_translation
    \/ poll_translation
    \/ execute_translation
    \/ rename_element
    \/ dxf_finally
    \/ part_end
    \/ step_export_pdfs
    \/ pdfs_loop
    \/ pdf_refs
    \/ pdf_props
    \/ pdf_end
    \/ step_package
    \/ package_results
    \/ step_post_clean

Spec == Init /\ [][Next]_vars

(***************************************************************************)
(* One call of export_part_studio, from the state in which a run without   *)
(* cleaning flags reaches it on a document that holds one Part Studio, to  *)
(* its return into step_export_dxfs or to the except clause of the run.    *)
(***************************************************************************)
\* The workflow state after step_init and step_discover on the listing.
DiscoveredState(c, elements) ==
    LET found == discover_exportables(elements)
        started == log_step(initial_state(c), "Starting export workflow", <<>>)
    IN  log_step([started EXCEPT !.part_studios = found.part_studios,
                                 !.drawings = found.drawings],
                 "Found Part Studios, drawings",
                 <<ToString(Len(found.part_studios)),
                   ToString(Len(found.drawings))>>)

\* Part Studios with a flat pattern: one without regular parts, one whose
\* regular part has no orientation feature to be exported with.
FlatContents ==
    {StudioContent(<<FlatA, PlateA>>, <<Orient(TRUE)>>),
     StudioContent(<<FlatA, PlateB>>, <<Extrude>>)}

InitStudio ==
    /\ args \in [ctx : Contexts, clean_before : {FALSE}, clean_after : {FALSE}]
    /\ doc = InitialDoc(1, 0, FALSE, FALSE)
    /\ srv \in [1..1 -> StudioContents \cup FlatContents]
    /\ env \in {[e EXCEPT !.faults = MaxStudioFaults] : e \in Environments}
    /\ pc = "ps_list_parts"
    /\ state = DiscoveredState(args.ctx, doc)
    /\ loc = [NoLoc EXCEPT !.state = state, !.results = state.results, !.i = 1]
    /\ ps = [NoPs EXCEPT !.eid = Some(state.part_studios[1].id)]
    /\ px = NoPx
    /\ tr = NoTr
    /\ pkg = NoPkg
    /\ out = Outcome
    /\ hist = NoHist

NextStudio ==
    \/ ps_list_parts
    \/ ps_flat_loop
    \/ ps_get_features
    \/ ps_unsuppress
    \/ ps_refetch
    \/ ps_part_loop
    \/ ps_resuppress
    \/ ps_return
    \/ dxf_create
    \/ dxf_get_mv
    \/ dxf_add_view
    \/ wait_for_microversion_change
    \/ dxf_thickness
    \/ dxf_props
    \/ initiate_translation
    \/ poll_translation
    \/ execute_translation
    \/ rename_element
    \/ dxf_finally
    \/ part_end

SpecStudio == InitStudio /\ [][NextStudio]_vars

(***************************************************************************)
(* Properties of the run.                                                  *)
(***************************************************************************)
\* The element ids of the results collected so far, in the workflow state,
\* in the running step and in the running export_part_studio.
ResultIds ==
    {r[1] : r \in Range(state.results) \cup Range(loc.results) \cup Range(ps.results)}

\* The positions inside the try block of export_part_studio and its finally
\* clause.
InsideTry ==
    {"ps_refetch", "ps_part_loop", "ps_resuppress", "dxf_create", "dxf_get_mv",
     "dxf_add_view", "wait_for_microversion_change", "dxf_thickness",
     "dxf_props", "initiate_translation", "poll_translation",
     "execute_translation", "rename_element", "dxf_finally", "part_end"}

PartIds(parts) == [k \in 1..Len(parts) |-> parts[k].partId]

\* C1: when export_part_as_dxf ends after create_drawing returned an id, the
\* DELETE of that temporary drawing has been requested.
TempDrawingDeleteIssued ==
    (pc = "part_end" /\ px.temp_drawing_id # None) => px.delete_issued

\* C2: when export_part_studio ends after it toggled the orientation
\* feature, the suppressed flag of the feature is the one it had before.
SuppressionRestored ==
    (ps.guard # "none" /\ pc \in {"ps_return", "failed"}) =>
        SuppressedFlag(TheValue(ps.orient_feature).featureId)
            = TheValue(ps.orient_feature).suppressed

\* C3: once the unsuppress request has succeeded, the run stays inside the
\* try block of that Part Studio until the re-suppress request is issued,
\* and the request is issued only after the last part was attempted or the
\* re-fetch of the parts raised.
ResuppressAfterUnsuppress ==
    /\ ps.guard = "open" => pc \in InsideTry
    /\ ps.guard = "closed" =>
          \/ ps.exc = Some("list_parts")
          \/ /\ ps.i = Len(ps.oriented_parts) + 1
             /\ ps.attempted = PartIds(ps.flat_patterns) \o PartIds(ps.oriented_parts)

\* C3, its case: the re-suppress request was issued although the export of
\* a part of the Part Studio had failed.
ResuppressedAfterPartFailure ==
    /\ pc = "ps_return"
    /\ ps.guard = "closed"
    /\ \E k \in DOMAIN ps.oriented_parts :
          BlobId(TempId(ps.oriented_parts[k])) \in hist.item_failed

\* C4: no export is attempted for the part a flat pattern of the Part
\* Studio unfolds.
NoExportOfUnflattenedPart ==
    ps.eid # None =>
        \A k \in DOMAIN TheStudio.parts :
            TheStudio.parts[k].isFlattenedBody =>
                TheStudio.parts[k].unflattenedPartId \notin Range(ps.attempted)

\* C5: under a version or microversion reference no request that changes
\* the document is issued.
NoMutationOfImmutable == ~is_mutable(args.ctx) => hist.mutating = {}

\* C6: a Drawing whose translation could not be initiated is absent from
\* the results, and the failure does not end the run: the except clause of
\* the run is not reached from the export of a Drawing.
FailedDrawingSkipped ==
    /\ hist.item_failed \cap ResultIds = {}
    /\ ~(pc = "failed" /\ out.raised_in = "initiate_translation")

\* C7 as stated: a part whose temporary drawing could not be deleted is
\* absent from the results.
DeleteFailureDropsPart == hist.delete_failed \cap ResultIds = {}

\* C7, amended: a part whose export failed before its result was there is
\* absent from the results, the failure does not end the run, and the loops
\* have attempted every part before the current one.
FailedPartSkipped ==
    /\ hist.item_failed \cap ResultIds = {}
    /\ out.raised_in # "part_end"
    /\ pc = "ps_flat_loop" =>
          ps.attempted = PartIds(SubSeq(ps.flat_patterns, 1, ps.i - 1))
    /\ pc = "ps_part_loop" =>
          ps.attempted = PartIds(ps.flat_patterns)
                           \o PartIds(SubSeq(ps.oriented_parts, 1, ps.i - 1))

\* C7, its case: the export of the flat pattern failed and both parts after
\* it were exported.
PartsExportedAfterFailure ==
    /\ pc = "ps_return"
    /\ BlobId(<<"temp", 1, "F">>) \in hist.item_failed
    /\ Len(ps.results) = 2

\* C8: a run that ended through the except clause has produced no archive.
NoArchiveOnFailure == pc = "failed" => out.archive = None

\* C9: a poll of wait_for_microversion_change that found the element
\* absent from the listing is the last poll.
AbsentEndsWait == ~(pc = "wait_for_microversion_change" /\ tr.fetched = "absent")

\* C10: poll_translation returns the first result id of a DONE status with
\* results, None for a DONE status without results and for FAILED, and
\* polls again after any other status.
StatusClassified ==
    /\ pc = "poll_translation" => tr.fetched \in {"", "error", "ACTIVE"}
    /\ pc = "execute_translation" =>
          /\ tr.fetched \in {"DONE", "DONE_EMPTY", "FAILED", "timeout"}
          /\ tr.fetched = "DONE" => tr.result_id = Some(BlobId(TheValue(tr.eid)))
          /\ tr.fetched \in {"DONE_EMPTY", "FAILED", "timeout"} => tr.result_id = None

\* C10, its case: a DONE status without results was fetched and
\* poll_translation returned None.
DoneEmptyFailed ==
    /\ pc = "execute_translation"
    /\ tr.fetched = "DONE_EMPTY"
    /\ tr.result_id = None

\* The positions of the two poll loops.
PollLoops == {"wait_for_microversion_change", "poll_translation"}

(***************************************************************************)
(* The whole run on a workspace document that holds one Part Studio, one   *)
(* Drawing and the leftovers of an earlier run, with or without cleaning   *)
(* before and afterwards.                                                  *)
(***************************************************************************)
InitSmall ==
    /\ \E clean \in BOOLEAN :
          args = [ctx |-> make_workspace_context("d1", "w1"),
                  clean_before |-> clean, clean_after |-> clean]
    /\ doc = InitialDoc(1, 1, TRUE, TRUE)
    /\ srv \in [1..1 -> StudioContents]
    /\ env \in Environments
    /\ pc = "step_init"
    /\ state = initial_state(args.ctx)
    /\ loc = NoLoc
    /\ ps = NoPs
    /\ px = NoPx
    /\ tr = NoTr
    /\ pkg = NoPkg
    /\ out = Outcome
    /\ hist = NoHist

SpecSmall == InitSmall /\ [][Next]_vars

\* The run under a scheduler that lets the program take its next step.
FairSpecSmall == SpecSmall /\ WF_vars(Next)

\* C11: a poll loop is left, at the latest when the elapsed time reaches
\* its timeout; an item whose poll loop timed out ends with the value None
\* and without an exception, is absent from the results, and the run does
\* not take the error path from a poll loop.
PollLoopsEnd ==
    /\ [](/\ pc = "wait_for_microversion_change" => tr.elapsed <= RenderTimeout
          /\ pc = "poll_translation" => tr.elapsed <= TranslationTimeout
          /\ (pc \in {"part_end", "pdf_end"} /\ "timeout" \in px.failed) =>
                (px.ret = None /\ px.exc = None)
          /\ hist.timed_out \cap ResultIds = {}
          /\ pc = "failed" => out.raised_in \notin
                (PollLoops \cup {"execute_translation", "part_end", "pdf_end"}))
    /\ (pc \in PollLoops) ~> (pc \notin PollLoops)

\* C11, its case: the package stage is reached after the poll loop of an
\* item timed out.
PackagedAfterTimeout == pc = "step_package" /\ hist.timed_out # {}

\* C12: when a translation of a temporary drawing is initiated, the listing
\* holds the drawing with a version marker other than the one it was
\* created with ("mv1", the marker it had before the view was inserted).
RenderedBeforeTranslation ==
    (pc = "initiate_translation" /\ tr.caller = "dxf") =>
        LET element == FindElement(doc, TheValue(px.temp_drawing_id))
        IN  element # None /\ TheValue(element).microversionId # "mv1"

\* The stage a position of the run belongs to: 1 pre-clean, 2 temp sweep,
\* 3 discovery, 4 DXF exports, 5 PDF exports, 6 package, 7 post-clean.
StageOf(at, cleanup_caller, translation_caller) ==
    CASE at = "step_init" -> 0
      [] at = "step_pre_clean" -> 1
      [] at \in {"cleanup_exports", "delete_elements"} ->
            IF cleanup_caller = "pre" THEN 1 ELSE 7
      [] at \in {"step_cleanup_temp", "cleanup_temp_elements"} -> 2
      [] at = "step_discover" -> 3
      [] at \in {"initiate_translation", "poll_translation",
                 "execute_translation", "rename_element"} ->
            IF translation_caller = "dxf" THEN 4 ELSE 5
      [] at \in {"step_export_pdfs", "pdfs_loop", "pdf_refs", "pdf_props",
                 "pdf_end"} -> 5
      [] at \in {"step_package", "package_results"} -> 6
      [] at = "step_post_clean" -> 7
      [] at \in {"done", "failed"} -> 8
      [] OTHER -> 4

\* C13: the run never goes from a stage back to an earlier one, and the
\* listing of the discovery stage is requested once.
StagesInOrder ==
    [][/\ StageOf(pc', loc'.caller, tr'.caller) >= StageOf(pc, loc.caller, tr.caller)
       /\ pc = "step_discover" => pc' # "step_discover"
       /\ pc' = "step_discover" => pc = "cleanup_temp_elements"]_vars

\* C13, its case: a post-clean deletion after the blobs were downloaded
\* into the archive.
PostCleanAfterDownloads ==
    /\ pc = "delete_elements"
    /\ loc.caller = "post"
    /\ loc.deleted > 0
    /\ out.archive # None
    /\ Len(TheValue(out.archive)) >= 2


(***************************************************************************)
(* Documents that hold nothing to export, and the calls that clean them:   *)
(* a whole run of run_export_workflow, or one call of cleanup_exports      *)
(* (as test_api_operations.py 78-97 calls it) with any context.            *)
(***************************************************************************)
PdfBlobElement == Element(<<"blob", 1, "">>, <<"sheet", ".pdf">>, "BLOB", "")

TextBlobElement == Element(<<"blob", 2, "">>, <<"notes", ".txt">>, "BLOB", "")

\* An Assembly whose name ends like an export.
AssemblyElement == Element(<<"asm", 0, "">>, <<"frame", ".dxf">>, "ASSEMBLY", "")

CleanDocs ==
    {<<>>,
     <<TextBlobElement, AssemblyElement>>,
     <<OldBlobElement, TextBlobElement, AssemblyElement, PdfBlobElement,
       LeftoverElement>>}

InitClean ==
    /\ args \in [ctx : Contexts, clean_before : BOOLEAN, clean_after : BOOLEAN]
    /\ doc \in CleanDocs
    /\ srv = <<>>
    /\ env = [faults |-> MaxCleanFaults, z_height |-> 0, lookup |-> NoProps]
    /\ \/ /\ pc = "step_init"
          /\ loc = NoLoc
       \/ /\ pc = "cleanup_exports"
          /\ loc = [NoLoc EXCEPT !.caller = "call"]
          /\ ~args.clean_before /\ ~args.clean_after
    /\ state = initial_state(args.ctx)
    /\ ps = NoPs
    /\ px = NoPx
    /\ tr = NoTr
    /\ pkg = NoPkg
    /\ out = Outcome
    /\ hist = NoHist

NextClean ==
    \/ step_init
    \/ step_pre_clean
    \/ cleanup_exports
    \/ delete_elements
    \/ step_cleanup_temp
    \/ cleanup_temp_elements
    \/ step_discover
    \/ step_export_dxfs
    \/ dxfs_loop
    \/ step_export_pdfs
    \/ pdfs_loop
    \/ step_package
    \/ step_post_clean

SpecClean == InitClean /\ [][NextClean]_vars

\* C14: the pre-clean and post-clean stages call cleanup_exports only when
\* their flag is set and the context is a workspace; otherwise the stage is
\* one step that issues no request and hands the state on unchanged.
CleanOnlyOnRequest ==
    /\ [](pc \in {"cleanup_exports", "delete_elements"} =>
             /\ loc.caller = "pre" => (args.clean_before /\ is_mutable(args.ctx))
             /\ loc.caller = "post" => (args.clean_after /\ is_mutable(args.ctx)))
    /\ [][/\ (pc = "step_pre_clean" /\ ~(args.clean_before /\ is_mutable(args.ctx))) =>
                /\ pc' = "step_cleanup_temp"
                /\ UNCHANGED <<state, doc, env, hist, out>>
          /\ (pc = "step_post_clean" /\ ~(args.clean_after /\ is_mutable(args.ctx))) =>
                /\ pc' = "done"
                /\ UNCHANGED <<state, doc, env, hist>>]_vars

UncleanedRunDone ==
    /\ pc = "done"
    /\ ~args.clean_before /\ is_mutable(args.ctx)
    /\ find_blobs_by_extension(doc) # <<>>
    /\ hist.mutating # {}

\* C15: cleanup_exports with a version or microversion context returns 0
\* in one step that issues no listing and no delete and leaves the remote
\* side as it is; no delete step and no exception is ever reached with such
\* a context.
ImmutableCleanupIsNoOp ==
    /\ [](pc \in {"delete_elements", "raised"} => args.ctx.wvm_type = "w")
    /\ [][(pc = "cleanup_exports" /\ args.ctx.wvm_type # "w") =>
             /\ pc' = "returned"
             /\ loc'.deleted = 0 /\ loc'.listed = 0 /\ loc'.requested = <<>>
             /\ UNCHANGED <<doc, env, hist, state, out>>]_vars

ImmutableCleanupReturned ==
    /\ pc = "returned"
    /\ args.ctx.wvm_type = "m"
    /\ loc.deleted = 0
    /\ Len(find_blobs_by_extension(doc)) = 2

\* What the claims call an export blob: a BLOB whose lower-cased name ends
\* in .dxf or .pdf.
ExportBlobIds(elements) ==
    LET Matches(e) ==
            /\ e.elementType = "BLOB"
            /\ Len(e.name) > 0
            /\ LowerToken(e.name[Len(e.name)]) \in {".dxf", ".pdf"}
        hits == SelectSeq(elements, Matches)
    IN  [k \in 1..Len(hits) |-> hits[k].id]

IdsOf(elements) == [k \in 1..Len(elements) |-> elements[k].id]

\* C16: cleanup_exports on a workspace lists the elements once; the deletes
\* it has requested and those it still will are, in listing order, one per
\* export blob of the listing; what is gone from the document was requested,
\* and the count is the number of elements gone; the count is returned when
\* every delete was requested, whether or not one failed.
CleanupDeletesExports ==
    (pc \in {"delete_elements", "returned"} /\ args.ctx.wvm_type = "w") =>
        /\ loc.listed = 1
        /\ loc.requested \o IdsOf(loc.todo) = ExportBlobIds(loc.elements)
        /\ \A k \in 1..Len(loc.elements) :
              \/ loc.elements[k] \in Range(doc)
              \/ loc.elements[k].id \in Range(loc.requested)
        /\ Len(doc) = Len(loc.elements) - loc.deleted
        /\ pc = "returned" => loc.todo = <<>>

DeletedAfterFailedDelete ==
    /\ pc = "returned"
    /\ loc.caller = "call"
    /\ loc.requested = <<OldBlobElement.id, PdfBlobElement.id>>
    /\ loc.deleted = 1
    /\ OldBlobElement \in Range(doc)
    /\ AssemblyElement \in Range(doc)


(***************************************************************************)
(* One call of step_package on a state that holds a result list            *)
(* (workflow.py 504-515, 379-429).                                         *)
(***************************************************************************)
ResultNames ==
    {<<"A", ".dxf">>, <<"B", ".dxf">>, <<"A", " ", "B", ".dxf">>,
     <<"A", "_", "B", ".dxf">>}

\* The result lists of n results; the k-th result is the blob <<"blob", k, "">>.
ResultLists(n) ==
    {[k \in 1..n |-> <<(<<"blob", k, "">>), names[k]>>] : names \in [1..n -> ResultNames]}

InitPackage ==
    /\ args = [ctx |-> make_workspace_context("d1", "w1"),
               clean_before |-> FALSE, clean_after |-> FALSE]
    /\ doc = <<>>
    /\ srv = <<>>
    /\ env = [faults |-> MaxPackageFaults, z_height |-> 0, lookup |-> NoProps]
    /\ pc = "step_package"
    /\ \E n \in 0..MaxResults : \E results \in ResultLists(n) :
          state = [DiscoveredState(args.ctx, doc) EXCEPT !.results = results]
    /\ loc = NoLoc
    /\ ps = NoPs
    /\ px = NoPx
    /\ tr = NoTr
    /\ pkg = NoPkg
    /\ out = Outcome
    /\ hist = NoHist

NextPackage ==
    \/ step_package
    \/ package_results

SpecPackage == InitPackage /\ [][NextPackage]_vars

\* The file entries of the archive (all but the log entry).
FileEntries ==
    LET IsFile(e) == e.name # <<"export_operation.log">>
    IN  IF out.archive = None THEN <<>> ELSE SelectSeq(TheValue(out.archive), IsFile)

\* The position of the first result of the list with the sanitized name of
\* the k-th.
FirstWithName(results, k) ==
    CHOOSE j \in 1..k :
        /\ SafeName(results[j][2]) = SafeName(results[k][2])
        /\ \A h \in 1..(j - 1) : SafeName(results[h][2]) # SafeName(results[k][2])

\* The warnings the results up to the n-th call for: one for every result
\* that is not the first of its sanitized name, in list order.
RECURSIVE ExpectedWarnings(_, _)
ExpectedWarnings(results, n) ==
    IF n = 0 THEN <<>>
    ELSE LET j == FirstWithName(results, n)
         IN  IF j = n THEN ExpectedWarnings(results, n - 1)
             ELSE Append(ExpectedWarnings(results, n - 1),
                         [name |-> SafeName(results[n][2]),
                          kept |-> results[j][1], skipped |-> results[n][1]])

Scenario ==
    << <<(<<"blob", 1, "">>), (<<"A", ".dxf">>)>>,
       <<(<<"blob", 2, "">>), (<<"A", ".dxf">>)>>,
       <<(<<"blob", 3, "">>), (<<"B", ".dxf">>)>> >>

\* C17: no two file entries of the archive have the same name; a file entry
\* holds the content of the first result of its sanitized name; the
\* warnings are one per later result of a name, naming the first and the
\* dropped element; the three results A.dxf, A.dxf, B.dxf with healthy
\* downloads give two file entries, the log entry and one warning.
FirstNameWins ==
    /\ \A i, j \in 1..Len(FileEntries) :
          FileEntries[i].name = FileEntries[j].name => i = j
    /\ \A i \in 1..Len(FileEntries) :
          \E k \in 1..Len(state.results) :
             /\ FirstWithName(state.results, k) = k
             /\ FileEntries[i] =
                    ArchiveEntry(SafeName(state.results[k][2]), <<state.results[k][1]>>)
    /\ pc = "package_results" =>
          pkg.collision_warnings = ExpectedWarnings(state.results, pkg.i - 1)
    /\ (pc = "step_post_clean" /\ state.zip_path # None) =>
          state.collision_warnings =
              ExpectedWarnings(state.results, Len(state.results))
    /\ (pc = "step_post_clean" /\ state.results = Scenario
            /\ env.faults = MaxPackageFaults) =>
          /\ Len(FileEntries) = 2
          /\ Len(TheValue(out.archive)) = 3
          /\ state.collision_warnings =
                 << [name |-> <<"A", ".dxf">>, kept |-> <<"blob", 1, "">>,
                     skipped |-> <<"blob", 2, "">>] >>

ScenarioPackaged ==
    /\ pc = "step_post_clean"
    /\ state.results = Scenario
    /\ env.faults = MaxPackageFaults
    /\ Len(FileEntries) = 2
    /\ Len(state.collision_warnings) = 1

\* The entries of the archive named export_operation.log.
LogEntries ==
    LET IsLog(e) == e.name = <<"export_operation.log">>
    IN  IF out.archive = None THEN <<>> ELSE SelectSeq(TheValue(out.archive), IsLog)

\* C18: once the package stage is over there is an archive if and only if
\* the result list is not empty; an archive holds one entry
\* export_operation.log, and it holds the log as it was when the package
\* stage began (the entry the stage then logs is SUCCESS); without results
\* there is no archive and the stage logs "No files were exported".
ArchiveIffResults ==
    (StageOf(pc, loc.caller, tr.caller) = 7 \/ pc = "done") =>
        /\ (out.archive # None) <=> (state.results # <<>>)
        /\ (state.zip_path # None) <=> (state.results # <<>>)
        /\ state.results # <<>> =>
              /\ Len(LogEntries) = 1
              /\ LET at_package == LogEntries[1].content
                 IN  /\ IsPrefix(at_package, state.log_entries)
                     /\ Len(state.log_entries) > Len(at_package)
                     /\ state.log_entries[Len(at_package) + 1] = LogEntry("SUCCESS", <<>>)
                     /\ \E k \in 1..Len(at_package) :
                           at_package[k].msg = "Found Part Studios, drawings"
        /\ state.results = <<>> =>
              /\ LogEntry("No files were exported", <<>>) \in Range(state.log_entries)
              /\ LogEntry("SUCCESS", <<>>) \notin Range(state.log_entries)

\* C18, its cases: a run that ended with an archive of a file and the log,
\* after a post-clean that logged more.
ArchiveWithEarlierLog ==
    /\ pc = "done"
    /\ Len(FileEntries) >= 1
    /\ Len(LogEntries) = 1
    /\ Len(state.log_entries) > Len(LogEntries[1].content) + 1

\* Discovery has answered, and found no Part Studio and no Drawing.
DiscoveredNothing ==
    LogEntry("Found Part Studios, drawings", <<"0", "0">>) \in Range(state.log_entries)

\* What holds of a run after a discovery that found nothing, the error path
\* left aside: no export is begun and no request of an export is issued,
\* there is no archive, and at the end "No files were exported" is in the
\* log and None is returned.
NothingExported ==
    /\ pc \in {"step_export_dxfs", "dxfs_loop", "step_export_pdfs", "pdfs_loop",
               "step_package", "step_post_clean", "cleanup_exports",
               "delete_elements", "done", "failed"}
    /\ ps = NoPs /\ px = NoPx /\ tr = NoTr
    /\ hist.mutating \subseteq {"delete_element"}
    /\ out.archive = None
    /\ state.results = <<>>
    /\ pc \in {"done", "failed"} =>
          /\ out.returned = None
          /\ LogEntry("No files were exported", <<>>) \in Range(state.log_entries)

\* C19 as stated: after a discovery that found nothing the run exports
\* nothing, has no archive, logs "No files were exported", returns None and
\* never takes the error path.
NothingFoundNoError ==
    DiscoveredNothing =>
        /\ NothingExported
        /\ pc # "failed" /\ out.critical_error = None

\* C19, amended: the same, but the error path is taken when, and only when,
\* the listing of a requested post-clean on a workspace raises.
NothingFoundErrorOnlyInPostClean ==
    DiscoveredNothing =>
        /\ NothingExported
        /\ out.critical_error # None <=> pc = "failed"
        /\ pc = "failed" =>
              /\ out.raised_in = "cleanup_exports"
              /\ args.clean_after /\ args.ctx.wvm_type = "w"
              /\ loc.caller = "post" /\ loc.listed = 1

NothingFoundRunDone ==
    /\ pc = "done"
    /\ DiscoveredNothing
    /\ out.returned = None /\ out.archive = None /\ out.critical_error = None
    /\ args.clean_after /\ args.ctx.wvm_type = "w"
    /\ doc = <<TextBlobElement, AssemblyElement>>
    /\ env.faults < MaxCleanFaults


(***************************************************************************)
(* The sweep and the discovery (workflow.py 473-482) on documents that     *)
(* hold elements with reserved names.                                      *)
(***************************************************************************)
\* A Part Studio and a native Drawing with reserved names.
TempStudioElement ==
    Element(<<"ps", 9, "">>, <<"TEST_MV_", "probe">>, "PARTSTUDIO", "")

TempDrawingElement ==
    Element(<<"dr", 9, "">>, <<"DEBUG_VIEW_", "front">>, "DRAWING", "")

DiscoverDocs ==
    LET all == <<StudioElement(1), DrawingElement(1), LeftoverElement,
                 TempStudioElement, TempDrawingElement>>
    IN  {LET Picked(e) == e.id \in ids IN SelectSeq(all, Picked) :
            ids \in SUBSET {all[k].id : k \in 1..Len(all)}}

InitDiscover ==
    /\ args \in [ctx : Contexts, clean_before : {FALSE}, clean_after : {FALSE}]
    /\ doc \in DiscoverDocs
    /\ srv \in [1..1 -> {StudioContent(<<PlateB>>, <<Extrude>>)}]
    /\ env = [faults |-> MaxCleanFaults, z_height |-> 0, lookup |-> NoProps]
    /\ pc = "step_cleanup_temp"
    /\ state = log_step(initial_state(args.ctx), "Starting export workflow", <<>>)
    /\ loc = NoLoc
    /\ ps = NoPs
    /\ px = NoPx
    /\ tr = NoTr
    /\ pkg = NoPkg
    /\ out = Outcome
    /\ hist = NoHist

NextDiscover ==
    \/ step_cleanup_temp
    \/ cleanup_temp_elements
    \/ step_discover

SpecDiscover == InitDiscover /\ [][NextDiscover]_vars

\* C20: no element with a reserved temporary name is among the Part Studios
\* or the Drawings the discovery hands to the export stages.
NoTempDiscovered ==
    \A e \in Range(state.part_studios) \cup Range(state.drawings) :
        ~(Len(e.name) > 0 /\ e.name[1] \in {"TEMP_", "DEBUG_VIEW_", "TEST_MV_"})


\* The ids of the elements of a listing whose name has a reserved prefix.
ReservedIds(elements) ==
    {elements[k].id : k \in {j \in 1..Len(elements) :
        /\ Len(elements[j].name) > 0
        /\ elements[j].name[1] \in {"TEMP_", "DEBUG_VIEW_", "TEST_MV_"}}}

\* The release of the temporary drawing changes neither the return value nor
\* the exception of export_part_as_dxf, and a returned result is appended
\* to the results whether or not the release failed; no element with a
\* reserved name is discovered as a Drawing or handed to the PDF export.
ReleaseFailureSwallowed ==
    /\ [][/\ pc = "dxf_finally" =>
                (pc' = "part_end" /\ px'.ret = px.ret /\ px'.exc = px.exc)
          /\ (pc = "part_end" /\ px.ret # None /\ px.exc = None) =>
                (ps'.results = Append(ps.results, TheValue(px.ret)) /\ pc' # "failed")]_vars
    /\ [](/\ Range(IdsOf(state.drawings)) \cap ReservedIds(state.drawings) = {}
          /\ pc \in {"pdf_refs", "pdf_props", "pdf_end"} =>
                TheValue(px.eid) # LeftoverElement.id
          /\ tr.caller = "pdf" => TheValue(tr.eid) # LeftoverElement.id)

\* C21 as stated: a failed release is swallowed, and a temporary drawing
\* left in a workspace is gone when the discovery of the next run begins
\* and is never exported as a PDF.
LeftoverDeletedBeforeDiscovery ==
    /\ ReleaseFailureSwallowed
    /\ [](pc = "step_discover" => LeftoverElement \notin Range(doc))

\* C21, amended: a failed release is swallowed; the sweep of the next run
\* requests the deletion of every element with a reserved name before the
\* discovery, an element stays only when its deletion failed, and it is
\* never exported as a PDF.
LeftoverSweptBeforeDiscovery ==
    /\ ReleaseFailureSwallowed
    /\ [][/\ (pc = "step_cleanup_temp" /\ pc' = "cleanup_temp_elements") =>
                Range(IdsOf(loc'.todo)) = ReservedIds(doc)
          /\ (pc = "cleanup_temp_elements" /\ loc.todo # <<>>) =>
                \/ doc' = DocWithout(Head(loc.todo).id)
                \/ doc' = doc /\ env'.faults < env.faults
          /\ pc' = "step_discover" =>
                (pc = "cleanup_temp_elements" /\ loc.todo = <<>>)]_vars

\* C21, its case: a run that swept the leftover drawing of the run before,
\* failed to release a temporary drawing of its own and kept the result.
ResultKeptAfterFailedRelease ==
    /\ pc = "done"
    /\ LeftoverElement \notin Range(doc)
    /\ \E r \in Range(state.results) : r[1] \in hist.delete_failed
    /\ ReservedIds(doc) # {}

\* The flat patterns of a part list, and its regular parts: the parts that
\* are no flat pattern and not the solid a flat pattern was unfolded from.
FlatPatternsOf(parts) == {p \in Range(parts) : p.isFlattenedBody}

RegularPartsOf(parts) ==
    {p \in Range(parts) :
        /\ ~p.isFlattenedBody
        /\ \A f \in FlatPatternsOf(parts) : f.unflattenedPartId # p.partId}

\* C22: in a Part Studio without regular parts, or without a feature that
\* matches the orientation pattern, export_part_studio requests no
\* suppression update and calls export_part_as_dxf for flat patterns only,
\* and it has called it for every flat pattern, in order, when it returns
\* or when the feature list raises.
NoOrientationNoRegularExport ==
    LET parts == srv[1].parts
        orientable == \E k \in 1..Len(srv[1].features) :
                         srv[1].features[k].name[1] = "Orient Plates for Export"
        flats == LET IsFlat(p) == p.isFlattenedBody IN SelectSeq(parts, IsFlat)
    IN  (ps.eid # None /\ (RegularPartsOf(parts) = {} \/ ~orientable)) =>
            /\ "update_feature_suppression" \notin hist.mutating
            /\ ps.guard = "none"
            /\ pc \notin {"ps_unsuppress", "ps_refetch", "ps_part_loop", "ps_resuppress"}
            /\ IsPrefix(ps.attempted, PartIds(flats))
            /\ (pc = "ps_return" \/ (pc = "failed" /\ out.raised_in = "get_features")) =>
                  ps.attempted = PartIds(flats)

\* C22, its case: the flat pattern of a Part Studio without regular parts
\* was exported and the function returns.
FlatOnlyStudioReturns ==
    /\ pc = "ps_return"
    /\ srv[1].parts = <<FlatA, PlateA>>
    /\ ps.attempted = <<"F">>
    /\ Len(ps.results) = 1


(***************************************************************************)
(* categorize_parts (client.py 148-165) as export_part_studio applies it   *)
(* to the answer of list_parts (workflow.py 278-280), on part lists of     *)
(* every make-up.                                                          *)
(***************************************************************************)
\* the flat pattern of B, and a flat pattern that names no solid
FlatB == Part("G", <<"flatB">>, TRUE, "B")

FlatLoose == Part("H", <<"flatX">>, TRUE, "")

CandidateParts == {PlateA, PlateB, FlatA, FlatB, FlatLoose}

PartLists ==
    UNION {[1..n -> CandidateParts] : n \in 0..MaxParts}

InitCategorize ==
    /\ args \in [ctx : Contexts, clean_before : {FALSE}, clean_after : {FALSE}]
    /\ doc = InitialDoc(1, 0, FALSE, FALSE)
    /\ \E parts \in PartLists : srv = <<StudioContent(parts, <<Extrude>>)>>
    /\ env = [faults |-> 0, z_height |-> 0, lookup |-> NoProps]
    /\ pc = "ps_list_parts"
    /\ state = DiscoveredState(args.ctx, doc)
    /\ loc = [NoLoc EXCEPT !.state = state, !.results = state.results, !.i = 1]
    /\ ps = [NoPs EXCEPT !.eid = Some(state.part_studios[1].id)]
    /\ px = NoPx
    /\ tr = NoTr
    /\ pkg = NoPkg
    /\ out = Outcome
    /\ hist = NoHist

NextCategorize == ps_list_parts

SpecCategorize == InitCategorize /\ [][NextCategorize]_vars

\* C23: the flat-pattern list is the flattened parts of the input, the
\* regular list the parts that are not flattened and whose partId no flat
\* pattern of the input names as its unflattenedPartId, both in input
\* order; no flattened part is in the regular list, and an empty input
\* gives two empty lists.
CategorizedByFlatness ==
    pc = "ps_flat_loop" =>
        LET parts == srv[1].parts
            IsFlat(p) == p.isFlattenedBody
            IsRegular(p) == p \in RegularPartsOf(parts)
        IN  /\ ps.flat_patterns = SelectSeq(parts, IsFlat)
            /\ ps.regular_parts = SelectSeq(parts, IsRegular)
            /\ \A p \in Range(ps.regular_parts) : ~p.isFlattenedBody
            /\ Range(ps.flat_patterns) \cup Range(ps.regular_parts) \subseteq Range(parts)
            /\ parts = <<>> => (ps.flat_patterns = <<>> /\ ps.regular_parts = <<>>)

\* C23, its case: a flat pattern, the solid it was unfolded from and a
\* regular part.
SheetMetalCategorized ==
    /\ pc = "ps_flat_loop"
    /\ srv[1].parts = <<PlateB, FlatA, PlateA>>
    /\ PartIds(ps.flat_patterns) = <<"F">>
    /\ PartIds(ps.regular_parts) = <<"B">>


(***************************************************************************)
(* find_orient_feature (workflow.py 170-189) as export_part_studio applies *)
(* it to the answer of get_features (workflow.py 300-301), on feature      *)
(* lists of every make-up.                                                 *)
(***************************************************************************)
FeatureNames ==
    {<<"Extrude 1">>,
     <<"Orient Plates for Export">>,
     <<"Orient Plates for Export", " ", "1">>,
     <<"Orient Plates for Export", " ", "2">>,
     <<"Orient Plates for Export", " ", "x">>,
     <<"Orient Plates for Export", "\n">>}

\* The feature lists of n features; the k-th has the featureId ToString(k).
FeatureLists ==
    UNION {{[k \in 1..n |-> Feature(ToString(k), names[k], TRUE)] :
               names \in [1..n -> FeatureNames]} : n \in 0..MaxFeatures}

InitOrient ==
    /\ args \in [ctx : Contexts, clean_before : {FALSE}, clean_after : {FALSE}]
    /\ doc = InitialDoc(1, 0, FALSE, FALSE)
    /\ \E features \in FeatureLists : srv = <<StudioContent(<<PlateB>>, features)>>
    /\ env = [faults |-> 0, z_height |-> 0, lookup |-> NoProps]
    /\ pc = "ps_get_features"
    /\ state = DiscoveredState(args.ctx, doc)
    /\ loc = [NoLoc EXCEPT !.state = state, !.results = state.results, !.i = 1]
    /\ ps = [NoPs EXCEPT !.eid = Some(state.part_studios[1].id),
                         !.regular_parts = <<PlateB>>, !.phase = 1, !.i = 1]
    /\ px = NoPx
    /\ tr = NoTr
    /\ pkg = NoPkg
    /\ out = Outcome
    /\ hist = NoHist

NextOrient == ps_get_features

SpecOrient == InitOrient /\ [][NextOrient]_vars

\* C24: find_orient_feature returns None when no feature is named
\* 'Orient Plates for Export', alone or followed by one space and a decimal
\* integer, and otherwise a feature so named whose integer (0 when absent)
\* is the highest among the features so named.
OrientFeatureOfHighestIndex ==
    pc \in {"ps_return", "ps_unsuppress"} =>
        LET features == srv[1].features
            Named(name) ==
                \/ name = <<"Orient Plates for Export">>
                \/ /\ Len(name) = 3
                   /\ name[1] = "Orient Plates for Export" /\ name[2] = " "
                   /\ name[3] \in {"0", "1", "2", "3"}
            Index(name) == IF Len(name) = 3 THEN IntOfDigits(name[3]) ELSE 0
            matches == {k \in 1..Len(features) : Named(features[k].name)}
        IN  /\ matches = {} => ps.orient_feature = None
            /\ matches # {} =>
                  \E k \in matches :
                     /\ ps.orient_feature = Some(features[k])
                     /\ \A j \in matches :
                           Index(features[j].name) <= Index(features[k].name)


(***************************************************************************)
(* The naming of a DXF (workflow.py 229-240): export_part_as_dxf at the    *)
(* thickness request of a flat pattern, for every make-up of the source    *)
(* name, the bounding box and the properties.                              *)
(***************************************************************************)
SourceNames == {<<"plate">>, <<"plate", ".dxf">>, <<"plate", ".DXF">>}

\* highZ - lowZ in hundredths of a millimetre: none, 0.01 mm, 1.5 mm, 3 mm
ZHeights == {0, 1, 150, 300}

Lookups ==
    {Properties(pn, rev, mat) :
        pn \in {<<>>, <<"PN1">>}, rev \in {<<>>, <<"A">>}, mat \in {<<>>, <<"STEEL">>}}

InitFilename ==
    /\ args = [ctx |-> make_workspace_context("d1", "w1"),
               clean_before |-> FALSE, clean_after |-> FALSE]
    /\ \E name \in SourceNames :
          LET part == Part("F", name, TRUE, "")
              temp == [Element(<<"temp", 1, "F">>, <<"TEMP_">> \o name \o <<"_ts">>,
                               "APPLICATION", "onshape-app/drawing")
                          EXCEPT !.microversionId = "mv2"]
          IN  /\ srv = <<StudioContent(<<part>>, <<Extrude>>)>>
              /\ doc = Append(InitialDoc(1, 0, FALSE, FALSE), temp)
              /\ ps = [NoPs EXCEPT !.eid = Some(<<"ps", 1, "">>),
                                   !.flat_patterns = <<part>>, !.phase = 1, !.i = 1,
                                   !.attempted = <<"F">>]
              /\ px = [NoPx EXCEPT !.part = Some(part), !.name = name,
                                   !.temp_drawing_id = Some(temp.id),
                                   !.old_mv = Some("mv1"),
                                   !.issued = <<"create_drawing">>]
    /\ \E z \in ZHeights, lookup \in Lookups :
          env = [faults |-> 1, z_height |-> z, lookup |-> lookup]
    /\ pc = "dxf_thickness"
    /\ state = DiscoveredState(args.ctx, InitialDoc(1, 0, FALSE, FALSE))
    /\ loc = [NoLoc EXCEPT !.state = state, !.results = state.results, !.i = 1]
    /\ tr = NoTr
    /\ pkg = NoPkg
    /\ out = Outcome
    /\ hist = [NoHist EXCEPT !.mutating = {"create_drawing", "add_view_to_drawing"}]

NextFilename ==
    \/ dxf_thickness
    \/ dxf_props

SpecFilename == InitFilename /\ [][NextFilename]_vars

\* The end of a DXF name built from part number and revision.
RichCore(props) == props.part_number \o <<"_Rev ">> \o props.revision \o <<".dxf">>

\* C25 as stated: with part number and revision the name is the thickness
\* prefix and one space when there is a thickness, then the material and
\* '_' when there is a material, then '<partNumber>_Rev <revision>.dxf'.
RichNameByParts ==
    (pc = "initiate_translation" /\ px.props.part_number # <<>>
        /\ px.props.revision # <<>>) =>
        px.filename =
            (IF px.thickness # None
             THEN format_thickness_prefix(px.thickness) \o <<" ">> ELSE <<>>)
            \o (IF px.props.material # <<>>
                THEN px.props.material \o <<"_">> ELSE <<>>)
            \o RichCore(px.props)

\* C25, amended: with part number and revision the name is the thickness
\* prefix and the material, those there are, joined by one space and
\* followed by '_' when there is either, then
\* '<partNumber>_Rev <revision>.dxf'.
RichNameJoined ==
    (pc = "initiate_translation" /\ px.props.part_number # <<>>
        /\ px.props.revision # <<>>) =>
        LET thickness == IF px.thickness # None
                         THEN format_thickness_prefix(px.thickness) ELSE <<>>
            material == px.props.material
        IN  px.filename =
                CASE thickness # <<>> /\ material # <<>> ->
                        thickness \o <<" ">> \o material \o <<"_">> \o RichCore(px.props)
                  [] thickness # <<>> /\ material = <<>> ->
                        thickness \o <<"_">> \o RichCore(px.props)
                  [] thickness = <<>> /\ material # <<>> ->
                        material \o <<"_">> \o RichCore(px.props)
                  [] OTHER -> RichCore(px.props)

\* C25, its case: a thickness and no material.
ThicknessOnlyName ==
    /\ pc = "initiate_translation"
    /\ px.thickness = Some(300)
    /\ px.props = Properties(<<"PN1">>, <<"A">>, <<>>)
    /\ px.filename = <<"3", "mm", "_", "PN1", "_Rev ", "A", ".dxf">>

\* C26: without part number or revision the name is built from the source
\* name and ends in one '.dxf', not in two.
FallbackNameOneSuffix ==
    (pc = "initiate_translation"
        /\ (px.props.part_number = <<>> \/ px.props.revision = <<>>)) =>
        LET n == Len(px.filename)
            stem == IF EndsWithLower(px.name, ".dxf")
                    THEN SubSeq(px.name, 1, Len(px.name) - 1) ELSE px.name
        IN  /\ n >= 2
            /\ px.filename[n] = ".dxf"
            /\ px.filename[n - 1] \notin {".dxf", ".DXF"}
            /\ \E k \in 0..n : SubSeq(px.filename, k + 1, n - 1) = stem

(***************************************************************************)
(* The naming of an export whose part number or revision is missing        *)
(* (workflow.py 229-248, 348-376): export_part_as_dxf at the thickness     *)
(* request and export_drawing_as_pdf at the reference request, up to the   *)
(* return of execute_translation.                                          *)
(***************************************************************************)
DrawingNames == {<<"sheet">>, <<"sheet", ".pdf">>, <<"sheet", ".PDF">>}

InitPdfName ==
    /\ args = [ctx |-> make_workspace_context("d1", "w1"),
               clean_before |-> FALSE, clean_after |-> FALSE]
    /\ \E name \in DrawingNames :
          LET drawing == Element(<<"dr", 1, "">>, name,
                                 "APPLICATION", "onshape-app/drawing")
          IN  /\ doc = <<drawing>>
              /\ px = [NoPx EXCEPT !.eid = Some(drawing.id), !.name = name]
    /\ srv = <<>>
    /\ \E lookup \in Lookups : env = [faults |-> 1, z_height |-> 0, lookup |-> lookup]
    /\ pc = "pdf_refs"
    /\ state = DiscoveredState(args.ctx, doc)
    /\ loc = [NoLoc EXCEPT !.state = state, !.results = state.results, !.i = 1,
                           !.attempted = <<doc[1].id>>]
    /\ ps = NoPs
    /\ tr = NoTr
    /\ pkg = NoPkg
    /\ out = Outcome
    /\ hist = NoHist

InitNaming == InitFilename \/ InitPdfName

NextNaming ==
    \/ dxf_thickness
    \/ dxf_props
    \/ pdf_refs
    \/ pdf_props
    \/ initiate_translation
    \/ poll_translation
    \/ execute_translation
    \/ rename_element

SpecNaming == InitNaming /\ [][NextNaming]_vars

\* The export is of a drawing, not of a part.
OfDrawing == px.part = None

MissingRequired == px.props.part_number = <<>> \/ px.props.revision = <<>>

\* The name of a PDF by the properties obtained: part number and revision,
\* or else the drawing name with suffix.
PdfNameOf(props, suffixed) ==
    IF props.part_number = <<>> \/ props.revision = <<>> THEN suffixed
    ELSE props.part_number \o <<"_Rev ">> \o props.revision \o <<".pdf">>

\* The export goes on to the translation request whatever the property
\* requests gave, under the name that was built, which the result keeps.
ExportProceeds(suffixed) ==
    /\ (pc \in {"dxf_props", "pdf_props"} => pc' = "initiate_translation")
    /\ (pc = "pdf_refs" => pc' \in {"pdf_props", "initiate_translation"})
    /\ (pc' = "initiate_translation" /\ px'.part = None =>
            px'.filename = PdfNameOf(px'.props, suffixed))
    /\ (pc' = "initiate_translation" /\ px'.part # None
            /\ (px'.props.part_number = <<>> \/ px'.props.revision = <<>>) =>
            /\ \E k \in 0..Len(px'.filename) :
                  SubSeq(px'.filename, k + 1, k + Len(px'.name)) = px'.name
            /\ EndsWithLower(px'.filename, ".dxf"))
    /\ (px'.ret # None => TheValue(px'.ret)[2] = px.filename)

\* C27 as stated: missing properties do not stop an export; the translation
\* is requested and the result bears the fallback name, for a drawing the
\* drawing name followed by '.pdf' unless part number and revision were both
\* obtained, when it is '<partNumber>_Rev <revision>.pdf'.
FallbackIsNameAndSuffix ==
    [][ExportProceeds(px.name \o <<".pdf">>)]_vars

\* C27, amended: as above, but a drawing name that already ends in '.pdf',
\* in whatever letter case, is the fallback name as it is.
FallbackKeepsOwnSuffix ==
    /\ [](pc \in {"dxf_thickness", "dxf_props", "pdf_refs", "pdf_props"}
            => ENABLED NextNaming)
    /\ [][ExportProceeds(IF EndsWithLower(px.name, ".pdf") THEN px.name
                         ELSE px.name \o <<".pdf">>)]_vars

\* C27, its case: a drawing exported without its properties, the result
\* named after the drawing.
DrawingResultUnderFallback ==
    /\ OfDrawing
    /\ MissingRequired
    /\ px.name = <<"sheet">>
    /\ px.ret # None
    /\ TheValue(px.ret)[2] = <<"sheet", ".pdf">>

(***************************************************************************)
(* format_thickness_prefix called by itself (client.py 199-206, as in      *)
(* tests/test_pure_functions.py 73-79), for None and for every thickness   *)
(* from -1 mm to MaxThickness in steps of 0.01 mm.                         *)
(***************************************************************************)
Thicknesses == {None} \cup {Some(h) : h \in -100..MaxThickness}

InitThickness ==
    /\ args = [ctx |-> make_workspace_context("d1", "w1"),
               clean_before |-> FALSE, clean_after |-> FALSE]
    /\ doc = <<>>
    /\ srv = <<>>
    /\ env = [faults |-> 0, z_height |-> 0, lookup |-> NoProps]
    /\ pc = "format_thickness_prefix"
    /\ state = initial_state(args.ctx)
    /\ loc = NoLoc
    /\ ps = NoPs
    /\ \E thickness_mm \in Thicknesses : px = [NoPx EXCEPT !.thickness = thickness_mm]
    /\ tr = NoTr
    /\ pkg = NoPkg
    /\ out = Outcome
    /\ hist = NoHist

\* The call and its return value, kept in px.filename.
test_formatting ==
    /\ pc = "format_thickness_prefix"
    /\ px' = [px EXCEPT !.filename = format_thickness_prefix(px.thickness)]
    /\ pc' = "formatted"
    /\ UNCHANGED <<args, env, doc, srv, state, loc, ps, tr, pkg, out, hist>>

NextThickness == test_formatting

SpecThickness == InitThickness /\ [][NextThickness]_vars

\* A number of tenths written with one decimal place, a '.0' left out.
TenthsText(tenths) ==
    IF tenths % 10 = 0 THEN <<ToString(tenths \div 10)>>
    ELSE <<ToString(tenths \div 10), ".", ToString(tenths % 10)>>

\* C28: format_thickness_prefix gives the empty string for None and for a
\* value <= 0, and for a positive value the value rounded to the nearest
\* tenth, written without a trailing '.0' and followed by 'mm'.
ThicknessPrefixRounded ==
    pc = "formatted" =>
        IF px.thickness = None \/ TheValue(px.thickness) <= 0
        THEN px.filename = <<>>
        ELSE LET h == TheValue(px.thickness)
             IN  /\ \E tenths \in 0..(MaxThickness \div 10 + 1) :
                       /\ 10 * tenths - h \in -5..5
                       /\ px.filename = TenthsText(tenths) \o <<"mm">>
                 /\ h = 300 => px.filename = <<"3", "mm">>
                 /\ h = 150 => px.filename = <<"1", ".", "5", "mm">>
                 /\ h = 50 => px.filename = <<"0", ".", "5", "mm">>
                 /\ h = 1000 => px.filename = <<"10", "mm">>

\* C28, its case: a thickness rounded up to a whole number of millimetres.
RoundedToWholeMillimetres ==
    /\ pc = "formatted"
    /\ px.thickness = Some(296)
    /\ px.filename = <<"3", "mm">>

(***************************************************************************)
(* is_mutable called by itself on a context (client.py 45-54, as in        *)
(* tests/test_pure_functions.py 96-126), for every reference type and      *)
(* several document and reference ids.                                     *)
(***************************************************************************)
DocumentIds == {"d1", "doc", "doc123", "ws", "ver"}

ReferenceIds == {"w1", "v1", "ws", "ver", "mv", "ws456", "ver789"}

BuiltContexts ==
    UNION {{make_workspace_context(did, id), make_version_context(did, id),
            MicroversionContext(did, id)} :
              did \in DocumentIds, id \in ReferenceIds}

InitMutable ==
    /\ \E ctx \in BuiltContexts :
          args = [ctx |-> ctx, clean_before |-> FALSE, clean_after |-> FALSE]
    /\ doc = <<>>
    /\ srv = <<>>
    /\ env = [faults |-> 0, z_height |-> 0, lookup |-> NoProps]
    /\ pc = "is_mutable"
    /\ state = initial_state(args.ctx)
    /\ loc = NoLoc
    /\ ps = NoPs
    /\ px = NoPx
    /\ tr = NoTr
    /\ pkg = NoPkg
    /\ out = Outcome
    /\ hist = NoHist

\* The call and its return value, kept in px.ret.
test_is_mutable ==
    /\ pc = "is_mutable"
    /\ px' = [px EXCEPT !.ret = Some(is_mutable(args.ctx))]
    /\ pc' = "mutability_known"
    /\ UNCHANGED <<args, env, doc, srv, state, loc, ps, tr, pkg, out, hist>>

NextMutable == test_is_mutable

SpecMutable == InitMutable /\ [][NextMutable]_vars

\* C29: is_mutable is true of every context make_workspace_context builds
\* and false of every context make_version_context builds and of every
\* microversion context, whatever the ids are.
MutableByReferenceType ==
    pc = "mutability_known" =>
        /\ \A did \in DocumentIds, id \in ReferenceIds :
              /\ args.ctx = make_workspace_context(did, id) => px.ret = Some(TRUE)
              /\ args.ctx = make_version_context(did, id) => px.ret = Some(FALSE)
              /\ args.ctx = MicroversionContext(did, id) => px.ret = Some(FALSE)
        /\ px.ret = Some(args.ctx.wvm_type = "w")

\* C29, its case: a version context that bears the ids of a workspace.
VersionContextImmutable ==
    /\ pc = "mutability_known"
    /\ args.ctx = make_version_context("ws", "w1")
    /\ px.ret = Some(FALSE)

(***************************************************************************)
(* The requests of an export in the order export_part_as_dxf (workflow.py  *)
(* 211-255), export_drawing_as_pdf (workflow.py 353-371) and               *)
(* execute_translation (client.py 562-573) issue them.                     *)
(***************************************************************************)
ExportRank(position) ==
    CASE position = "dxf_create" -> 1
      [] position = "dxf_get_mv" -> 2
      [] position = "dxf_add_view" -> 3
      [] position = "wait_for_microversion_change" -> 4
      [] position = "dxf_thickness" -> 5
      [] position = "dxf_props" -> 6
      [] position = "pdf_refs" -> 5
      [] position = "pdf_props" -> 6
      [] position = "initiate_translation" -> 7
      [] position = "poll_translation" -> 8
      [] position = "execute_translation" -> 9
      [] position = "rename_element" -> 10
      [] position = "dxf_finally" -> 11
      [] position = "part_end" -> 12
      [] position = "pdf_end" -> 12
      [] OTHER -> 0

NoDuplicates(s) == \A i, j \in 1..Len(s) : s[i] = s[j] => i = j

\* The item export_part_as_dxf or export_drawing_as_pdf is working on, named
\* as in hist.item_failed.
CurrentItem ==
    IF px.part # None THEN {BlobId(TempId(TheValue(px.part)))}
    ELSE IF px.eid # None THEN {BlobId(TheValue(px.eid))} ELSE {}

\* Within an export every step goes on to a later request, or is one more
\* turn of the poll loop it is in.
OnlyPollsRepeat ==
    (ExportRank(pc) > 0 /\ ExportRank(pc') > 0) =>
        \/ ExportRank(pc') > ExportRank(pc)
        \/ (pc' = pc /\ pc \in PollLoops)

\* C30: in a run no part and no drawing is exported twice, an export asks
\* for one temporary drawing and one translation at most, an item whose
\* export failed is not worked on again, and within an export no request is
\* issued again but the fetch of a poll loop.
NoExportRetried ==
    /\ [](/\ NoDuplicates(ps.attempted)
          /\ NoDuplicates(loc.attempted)
          /\ NoDuplicates(px.issued)
          /\ CurrentItem \cap hist.item_failed = {})
    /\ [][OnlyPollsRepeat]_vars

\* C30, its case: an export has failed and the translation of a later item
\* has been requested.
LaterItemAfterFailure ==
    /\ hist.item_failed # {}
    /\ Len(ps.attempted) >= 2
    /\ px.issued = <<"create_drawing", "initiate_translation">>
    /\ pc = "poll_translation"

(***************************************************************************)
(* The post-clean stage and the exports of earlier runs (workflow.py        *)
(* 119-140, 517-523).                                                      *)
(***************************************************************************)
\* The DXF and PDF blobs the documents hold before a run starts.
EarlierExportIds == {OldBlobElement.id, PdfBlobElement.id}

\* C31: with clean_after on a workspace the post-clean stage deletes the
\* blobs this run stored only; it does not ask for the deletion of a DXF or
\* PDF blob that was in the document before the run.
PostCleanSparesEarlierExports ==
    loc.caller = "post" => Range(loc.requested) \cap EarlierExportIds = {}

(***************************************************************************)
(* What a run holds open in the document at one time (workflow.py 211-255, *)
(* 307-328, 484-492).                                                      *)
(***************************************************************************)
\* The temporary drawings of this run that are in the document and whose
\* DELETE has not been requested.
UndeletedTemps ==
    {i \in 1..Len(doc) :
        /\ doc[i].id[1] = "temp"
        /\ BlobId(doc[i].id) \notin hist.delete_failed
        /\ ~(px.temp_drawing_id = Some(doc[i].id) /\ px.delete_issued)}

\* The orientation feature is unsuppressed by the run and its re-suppression
\* has not been requested.
FeatureHeldOpen == ps.guard = "open"

\* C32: at every point of a run at most one temporary drawing of the run is
\* there without a request to delete it, and no orientation feature is left
\* unsuppressed when the part list of a Part Studio is about to be fetched.
OneOpenItemAtATime ==
    /\ Cardinality(UndeletedTemps) <= 1
    /\ pc \in {"dxfs_loop", "ps_list_parts"} => ~FeatureHeldOpen

(***************************************************************************)
(* The state value handed from stage to stage (workflow.py 49-53, 461-523).*)
(***************************************************************************)
\* The stage that is running returns: the variable state takes its value.
StageReturns == state' # state

\* C33: a stage hands on a state value whose results and log_entries begin
\* with the lists of the value it got, nothing removed or reordered, and
\* whose ctx and output_dir are those of the call; while a stage runs, the
\* value it got stays as it is.
StagesExtendState ==
    /\ [](state.ctx = args.ctx /\ state.output_dir = "out")
    /\ [][/\ IsPrefix(state.results, state'.results)
          /\ IsPrefix(state.log_entries, state'.log_entries)
          /\ loc.state # None /\ loc'.state # None =>
                /\ IsPrefix(loc.results, loc'.results)
                /\ IsPrefix(loc.state.log_entries, loc'.state.log_entries)
          /\ StageReturns => pc' \in Range(Steps) \cup {"done"}]_vars

\* C33, its case: the export stages have added results and log entries to
\* what discovery handed on.
ExportsAddedToState ==
    /\ pc = "step_package"
    /\ Len(state.results) >= 2
    /\ Len(state.log_entries) >= 4

(***************************************************************************)
(* The archive of a run whose results collide (workflow.py 393-429).       *)
(***************************************************************************)
\* All results of the list bear one sanitized name, and there is a collision.
AllOfOneName(results) ==
    /\ Len(results) >= 2
    /\ \A k \in 1..Len(results) : SafeName(results[k][2]) = SafeName(results[1][2])

\* The downloads of this call of package_results that failed.
FailedDownloads == MaxPackageFaults - env.faults

\* C34 as stated: when every result of a run is in a name collision, an
\* archive is emitted all the same, and it holds the log entry only.
AllCollideOnlyLog ==
    (pc = "step_post_clean" /\ AllOfOneName(state.results)) =>
        /\ out.archive # None
        /\ Len(LogEntries) = 1
        /\ FileEntries = <<>>

\* C34, amended: with results there is always an archive with the log entry;
\* the first result of a name is never skipped as a collision, so every
\* result is a file entry, a collision or a failed download, and results of
\* one name leave the file of the first at most: the archive holds the log
\* entry only when no result that was not skipped could be downloaded.
OnlyLogWhenNoDownload ==
    (pc = "step_post_clean" /\ state.results # <<>>) =>
        /\ out.archive # None
        /\ Len(LogEntries) = 1
        /\ Len(TheValue(out.archive)) = Len(FileEntries) + 1
        /\ Len(state.collision_warnings) < Len(state.results)
        /\ Len(FileEntries) + Len(state.collision_warnings) + FailedDownloads
              = Len(state.results)
        /\ AllOfOneName(state.results) =>
              /\ Len(state.collision_warnings) = Len(state.results) - 1
              /\ Len(FileEntries) <= 1
              /\ FileEntries = <<>> <=> FailedDownloads = 1

\* C34, its case: results of one name, the download of the first failed, and
\* the archive holds the log entry alone.
ArchiveOfLogAlone ==
    /\ pc = "step_post_clean"
    /\ AllOfOneName(state.results)
    /\ FailedDownloads = 1
    /\ out.archive # None
    /\ Len(TheValue(out.archive)) = 1
    /\ Len(LogEntries) = 1

(***************************************************************************)
(* pipeline called by itself (workflow.py 31-33, as in                     *)
(* tests/test_pure_functions.py 129-142): reduce takes the steps one by    *)
(* one, state is what the last step returned.                              *)
(***************************************************************************)
MaxSteps == 3

\* The steps under test: x + 1, x * 2, -x, and one that raises.
StepFunctions == {"add_one", "double", "negate", "raises"}

StepLists == UNION {[1..n -> StepFunctions] : n \in 0..MaxSteps}

Initials == {1, 5, 42}

\* step(state) for a step that returns
CallStep(step, x) ==
    CASE step = "add_one" -> x + 1
      [] step = "double" -> x * 2
      [] step = "negate" -> 0 - x

\* A reduce that takes the steps from the right.
reduce_from_right(steps, turn) == steps[Len(steps) + 1 - turn]

\* reduce(..., steps, initial): the step of a turn
reduce_turn(steps, turn) == steps[turn]

InitPipeline ==
    /\ \E steps \in StepLists, initial \in Initials :
          /\ args = [steps |-> steps, initial |-> initial]
          /\ state = initial
    /\ doc = <<>>
    /\ srv = <<>>
    /\ env = [faults |-> 0, z_height |-> 0, lookup |-> NoProps]
    /\ pc = "pipeline"
    /\ loc = [NoLoc EXCEPT !.i = 1]
    /\ ps = NoPs
    /\ px = NoPx
    /\ tr = NoTr
    /\ pkg = NoPkg
    /\ out = Outcome
    /\ hist = NoHist

\* One turn of reduce, or its return; loc.attempted lists the steps called.
test_pipeline ==
    /\ pc = "pipeline"
    /\ IF loc.i <= Len(args.steps)
       THEN LET step == reduce_turn(args.steps, loc.i)
            IN  /\ loc' = [loc EXCEPT !.i = @ + 1, !.attempted = Append(@, step)]
                /\ IF step = "raises"
                   THEN /\ pc' = "raised"
                        /\ state' = state
                   ELSE /\ pc' = pc
                        /\ state' = CallStep(step, state)
       ELSE /\ pc' = "returned"
            /\ UNCHANGED <<state, loc>>
    /\ UNCHANGED <<args, env, doc, srv, ps, px, tr, pkg, out, hist>>

NextPipeline == test_pipeline

SpecPipeline == InitPipeline /\ [][NextPipeline]_vars

\* g(f(x)): the last step applied to what the steps before it give.
RECURSIVE Composed(_, _)
Composed(steps, x) ==
    IF steps = <<>> THEN x
    ELSE CallStep(steps[Len(steps)], Composed(SubSeq(steps, 1, Len(steps) - 1), x))

\* C35: pipeline(s1, ..., sn)(x) is sn(...s1(x)), every step called once and
\* in the order of the list; pipeline()(x) is x; when a step raises, the
\* steps after it are not called.
PipelineComposesLeftToRight ==
    /\ pc = "returned" =>
          /\ loc.attempted = args.steps
          /\ state = Composed(args.steps, args.initial)
          /\ args.steps = <<>> => state = args.initial
          /\ (args.steps = <<"add_one", "double">> /\ args.initial = 1) => state = 4
    /\ pc = "raised" =>
          /\ IsPrefix(loc.attempted, args.steps)
          /\ loc.attempted[Len(loc.attempted)] = "raises"
          /\ \A k \in 1..(Len(loc.attempted) - 1) : loc.attempted[k] # "raises"
    /\ "raises" \in Range(loc.attempted) => pc = "raised"

\* C35, its case: a step raised and a step was left uncalled.
StepAfterRaiseNotCalled ==
    /\ pc = "raised"
    /\ args.steps = <<"add_one", "raises", "double">>
    /\ loc.attempted = <<"add_one", "raises">>
    /\ state = args.initial + 1

(***************************************************************************)
(* The element a collision warning names as kept (workflow.py 410-423).    *)
(***************************************************************************)
\* C36: every collision warning of package_results names as kept an element
\* whose file is in the archive under the colliding name, also when a
\* download of the call has failed.
KeptElementIsArchived ==
    \A k \in 1..Len(pkg.collision_warnings) :
        LET warning == pkg.collision_warnings[k]
        IN  \E e \in Range(FileEntries) :
               /\ e.name = warning.name
               /\ e.content = <<warning.kept>>

(***************************************************************************)
(* Where the pairs of the results come from (client.py 519-573,            *)
(* workflow.py 287-291, 318-321, 494-502).                                 *)
(***************************************************************************)
\* The pairs held as results anywhere in the run.
ResultPairs == Range(state.results) \cup Range(loc.results) \cup Range(ps.results)

\* The pair the export in hand has returned, if any.
ReturnedPair == IF px.ret = None THEN {} ELSE {TheValue(px.ret)}

\* C37: a pair is returned only by execute_translation after a status
\* fetched as DONE whose first result element is the id of the pair, also
\* when the rename that follows fails; the results take up nothing but the
\* pair the export in hand returned, one at a time, and no pair twice.
ResultsComeFromDoneJobs ==
    /\ [](/\ NoDuplicates(state.results)
          /\ NoDuplicates(loc.results)
          /\ NoDuplicates(ps.results)
          /\ tr.result_id # None =>
                /\ tr.fetched = "DONE"
                /\ tr.result_id = Some(BlobId(TheValue(tr.eid))))
    /\ [][/\ (px.ret = None /\ px'.ret # None) =>
                /\ pc = "rename_element"
                /\ tr.fetched = "DONE"
                /\ px'.ret = Some(<<TheValue(tr.result_id), px.filename>>)
          /\ ResultPairs' \subseteq ResultPairs \cup ReturnedPair
          /\ Len(ps'.results) <= Len(ps.results) + 1
          /\ pc = "pdf_end" => Len(loc'.results) <= Len(loc.results) + 1]_vars

\* C37, its case: a pair is in the final results though its blob was not
\* renamed to the filename of the pair.
PairKeptWithoutRename ==
    /\ pc = "step_package"
    /\ \E k \in 1..Len(state.results) : \E i \in 1..Len(doc) :
          /\ doc[i].id = state.results[k][1]
          /\ doc[i].name # state.results[k][2]

(***************************************************************************)
(* A fetch of a poll that raises (client.py 59-76, 523-528, 586-592).      *)
(***************************************************************************)
\* The marker of the drawing waited for differs, in listing d, from the one
\* recorded before the view was added.
MarkerChanged(d) ==
    LET element == FindElement(d, TheValue(tr.eid))
    IN  /\ element # None
        /\ TheValue(element).microversionId # ""
        /\ Some(TheValue(element).microversionId) # px.old_mv

\* C38: a status fetch of poll_translation or a listing fetch of
\* wait_for_microversion_change that raises does not end the poll, which
\* sleeps and fetches again; a DONE status with a result, or a changed
\* marker, fetched after it within the timeout is returned as success.
PollsOutliveFetchError ==
    /\ [](pc = "execute_translation" => tr.fetched # "error")
    /\ [][/\ (pc = "poll_translation" /\ tr'.fetched = "error" /\ tr' # tr) =>
                /\ pc' = pc
                /\ tr'.elapsed = tr.elapsed + PollInterval
                /\ tr'.result_id = None
          /\ (pc = "poll_translation" /\ "poll translation" \in px.failed
                /\ tr'.fetched = "DONE") =>
                /\ pc' = "execute_translation"
                /\ tr'.result_id = Some(BlobId(TheValue(tr.eid)))
          /\ (pc = "wait_for_microversion_change" /\ tr'.fetched = "error"
                /\ tr' # tr) =>
                /\ pc' = pc
                /\ tr'.elapsed = tr.elapsed + PollInterval
          /\ (pc = "wait_for_microversion_change" /\ pc' = "dxf_finally") =>
                ~PollRunning(tr.elapsed, RenderTimeout)
          /\ (pc = "wait_for_microversion_change" /\ "fetch elements" \in px.failed
                /\ PollRunning(tr.elapsed, RenderTimeout)
                /\ tr'.fetched # "error" /\ MarkerChanged(doc')) =>
                pc' = "dxf_thickness"]_vars

\* C38, its case: one export whose wait and whose translation poll each met
\* a raising fetch, and both ended in success.
SuccessAfterFetchErrors ==
    /\ pc = "execute_translation"
    /\ {"fetch elements", "poll translation"} \subseteq px.failed
    /\ tr.fetched = "DONE"
    /\ tr.result_id # None

(***************************************************************************)
(* The unsuppress request and the try block (workflow.py 307-328).         *)
(***************************************************************************)
\* The unsuppress request of the Part Studio in hand has been sent: it
\* succeeded (the guard was entered) or it raised.
UnsuppressSent == ps.guard # "none" \/ out.raised_in = "ps_unsuppress"

\* C39: when export_part_studio is over, normally or by an exception, and it
\* had sent the unsuppress request, it has sent the re-suppress request as
\* well, also when the unsuppress request reported an error.
ResuppressSentAfterUnsuppressSent ==
    (pc \in {"ps_return", "failed"} /\ UnsuppressSent) => ps.guard = "closed"

(***************************************************************************)
(* The export steps on a workspace document that holds a Part Studio after *)
(* the first and a Drawing (workflow.py 484-502, 538-572).                 *)
(***************************************************************************)
InitLater ==
    /\ args = [ctx |-> make_workspace_context("d1", "w1"),
               clean_before |-> FALSE, clean_after |-> FALSE]
    /\ doc = InitialDoc(MaxStudios + 1, 1, FALSE, FALSE)
    /\ srv = [i \in 1..(MaxStudios + 1) |->
                 StudioContent(<<PlateB>>, <<Extrude, Orient(TRUE)>>)]
    /\ env \in Environments
    /\ pc = "step_export_dxfs"
    /\ state = DiscoveredState(args.ctx, doc)
    /\ loc = NoLoc
    /\ ps = NoPs
    /\ px = NoPx
    /\ tr = NoTr
    /\ pkg = NoPkg
    /\ out = Outcome
    /\ hist = NoHist

NextLater ==
    \/ step_export_dxfs
    \/ dxfs_loop
    \/ ps_list_parts
    \/ ps_flat_loop
    \/ ps_get_features
    \/ ps_unsuppress
    \/ ps_refetch
    \/ ps_part_loop
    \/ ps_resuppress
    \/ ps_return
    \/ dxf_create
    \/ dxf_get_mv
    \/ dxf_add_view
    \/ wait_for_microversion_change
    \/ dxf_thickness
    \/ dxf_props
    \/ initiate_translation
    \/ poll_translation
    \/ execute_translation
    \/ rename_element
    \/ dxf_finally
    \/ part_end
    \/ step_export_pdfs
    \/ pdfs_loop
    \/ pdf_refs
    \/ pdf_props
    \/ pdf_end
    \/ step_package
    \/ package_results
    \/ step_post_clean

SpecLater == InitLater /\ [][NextLater]_vars

\* The requests of export_part_studio that no except clause of the function
\* or of its loops covers.
StudioRequests == {"ps_list_parts", "ps_get_features", "ps_unsuppress", "ps_resuppress"}

\* Elements the export of a Part Studio or Drawing after the one in hand
\* would have created: a temporary drawing or blob of a later Part Studio,
\* the blob of a Drawing.
LaterExports ==
    {i \in 1..Len(doc) :
        /\ doc[i].id[1] \in {"temp", "blob"}
        /\ doc[i].id[3] = "" \/ doc[i].id[2] > loc.i}

\* C40: a request of export_part_studio that raises outside the loops over
\* the parts (the part list, the features, the unsuppress or the re-suppress
\* request) is fatal: the run is over from there, with critical_error.log
\* written and None returned, nothing packaged and no export of a later
\* Part Studio or Drawing begun.
StudioErrorIsFatal ==
    /\ [](out.raised_in \in StudioRequests =>
             /\ pc = "failed"
             /\ out.critical_error # None
             /\ out.returned = None
             /\ out.archive = None
             /\ pkg = NoPkg
             /\ state.results = <<>>
             /\ loc.attempted = <<>>
             /\ LaterExports = {})
    /\ [][/\ pc # "failed"
          /\ (pc \in StudioRequests /\ env'.faults < env.faults) => pc' = "failed"
          /\ (pc = "ps_refetch" /\ env'.faults < env.faults) =>
                pc' = "ps_resuppress" /\ ps'.exc # None
          /\ (pc = "ps_resuppress" /\ ps.exc # None) => pc' = "failed"]_vars

\* C40, its case: the part list of the second Part Studio raised after the
\* first Part Studio had given a result, and nothing was packaged.
LaterStudioErrorDropsResults ==
    /\ pc = "failed"
    /\ out.raised_in = "ps_list_parts"
    /\ loc.i = 2
    /\ loc.results # <<>>
    /\ out.archive = None
    /\ out.returned = None

=============================================================================
